---- MODULE Spec2Model ----
(***************************************************************************)
(* Emby sessions -> Home Assistant media players.                          *)
(*                                                                         *)
(* A model of the session reconciliation engine (_sync_entities), of the   *)
(* playback state normalizer (EmbySessionEntity._apply_session) and of the *)
(* EPG refresh scheduler (_maybe_schedule_epg_refresh, _async_refresh_epg) *)
(* of media_player.py, with the part of api.py the EPG fetch calls.        *)
(*                                                                         *)
(* JSON and Python values are tagged records, so that "absent", None, the  *)
(* empty string, numbers and objects stay distinct and Python's truth      *)
(* value, dict.get and str() are computed as Python computes them.         *)
(***************************************************************************)
EXTENDS Integers, Sequences, FiniteSets, TLC

(***************************************************************************)
(* Bounds of the model.                                                    *)
(***************************************************************************)
\* The clock runs from 0 to MaxTicks * TickSeconds seconds.
MaxTicks == 2
\* A poll result holds at most MaxLen session entries.
MaxLen == 2
\* A poll is delivered only while fewer than MaxTasks EPG fetches are in flight.
MaxTasks == 2
\* At most MaxCommands command handlers are called.
MaxCommands == 2
\* the calls of the client a behaviour starts
MaxCalls == 2
\* how often the config entry is set up
MaxSetups == 3
\* how often the reconciliation pass of one setup is invoked
MaxRuns == 2

(***************************************************************************)
(* Program constants.                                                      *)
(***************************************************************************)
\* media_player.py:48, ticks per second
TicksPerSecond == 10000000
\* media_player.py:348, the minimum number of seconds between two EPG fetches
EpgThrottleSeconds == 20
\* __init__.py:53, the sessions coordinator's update interval in seconds
TickSeconds == 10

(***************************************************************************)
(* Values.                                                                 *)
(***************************************************************************)
None == [t |-> "none"]
Str(x) == [t |-> "str", v |-> x]
Num(n) == [t |-> "num", v |-> n]
Bool(b) == [t |-> "bool", v |-> b]
Obj(d) == [t |-> "obj", v |-> d]
\* a datetime, in seconds of the model's clock
Time(n) == [t |-> "time", v |-> n]
\* a Python float holding whole + frac / TicksPerSecond
Float(whole, frac) == [t |-> "float", whole |-> whole, frac |-> frac]

\* a Python list
List(s) == [t |-> "list", v |-> s]
IsList(v) == v.t = "list"

\* the empty dict {}
EmptyDict == Obj(<<>>)

\* bool(v)
Truthy(v) ==
    CASE v.t = "none" -> FALSE
      [] v.t = "str" -> v.v # ""
      [] v.t = "num" -> v.v # 0
      [] v.t = "bool" -> v.v
      [] v.t = "obj" -> DOMAIN v.v # {}
      [] v.t = "float" -> v.whole # 0 \/ v.frac # 0
      [] v.t = "list" -> v.v # <<>>
      [] OTHER -> TRUE

\* a or b
Or(a, b) == IF Truthy(a) THEN a ELSE b

\* isinstance(v, dict)
IsDict(v) == v.t = "obj"

\* d.get(k) of a dict d
Get(d, k) == IF k \in DOMAIN d.v THEN d.v[k] ELSE None

\* d.get(k, default) of a dict d
GetDefault(d, k, default) == IF k \in DOMAIN d.v THEN d.v[k] ELSE default

\* str(v), of the values str() is applied to
PyStr(v) ==
    CASE v.t = "str" -> v
      [] v.t = "num" -> Str(ToString(v.v))
      [] v.t = "bool" -> Str(IF v.v THEN "True" ELSE "False")
      [] OTHER -> Str("None")

\* str(x) if x is not None else None
StrOrNone(v) == IF v # None THEN PyStr(v) ELSE None

\* s.lower(), of the item types and the play methods the server sends
Lower(s) ==
    CASE s = "Movie" -> "movie"
      [] s = "Episode" -> "episode"
      [] s = "Audio" -> "audio"
      [] s = "TvChannel" -> "tvchannel"
      [] s = "LiveTvChannel" -> "livetvchannel"
      [] s = "Program" -> "program"
      [] s = "Trailer" -> "trailer"
      [] s = "EPISODE" -> "episode"
      [] s = "MOVIE" -> "movie"
      [] s = "AudioFile" -> "audiofile"
      [] s = "Music" -> "music"
      [] s = "MusicVideo" -> "musicvideo"
      [] s = "Photo" -> "photo"
      [] s = "Transcode" -> "transcode"
      [] s = "DirectPlay" -> "directplay"
      [] OTHER -> s

\* homeassistant.util.slugify, of the names in the model's sessions: lower case,
\* every run of other characters an underscore
ha_slugify(s) ==
    CASE s = "emby_Living Room TV_alice" -> "emby_living_room_tv_alice"
      [] s = "emby_Living Room TV" -> "emby_living_room_tv"
      [] s = "emby_Phone_alice" -> "emby_phone_alice"
      [] s = "emby_Phone_bob" -> "emby_phone_bob"
      [] s = "emby_Phone" -> "emby_phone"
      [] s = "emby_Emby Web_bob" -> "emby_emby_web_bob"
      [] s = "emby_Emby Web" -> "emby_emby_web"
      [] s = "emby_emby_alice" -> "emby_emby_alice"
      [] s = "emby_emby_bob" -> "emby_emby_bob"
      [] OTHER -> s

\* s.startswith("emby_"), of the slugs above
StartsWithEmby(s) ==
    s \in {"emby_living_room_tv_alice", "emby_living_room_tv", "emby_phone_alice",
           "emby_phone_bob", "emby_phone", "emby_emby_web_bob", "emby_emby_web",
           "emby_emby_alice", "emby_emby_bob"}

(***************************************************************************)
(* The playback state normalizer.                                          *)
(***************************************************************************)
\* a variant of _ticks_to_seconds that has 0 seconds for what is no number
_ticks_to_seconds_zero(ticks) ==
    IF ticks.t = "num"
    THEN Float(ticks.v \div TicksPerSecond, ticks.v % TicksPerSecond)
    ELSE IF ticks.t = "bool"
    THEN Float(0, IF ticks.v THEN 1 ELSE 0)
    ELSE Float(0, 0)

_ticks_to_seconds(ticks) ==
    IF ticks.t = "num"
    THEN Float(ticks.v \div TicksPerSecond, ticks.v % TicksPerSecond)
    ELSE IF ticks.t = "bool"
    THEN Float(0, IF ticks.v THEN 1 ELSE 0)
    ELSE None

\* a variant of _content_type_from_item_type that compares the type as it is spelled
_content_type_from_item_type_exact(item_type) ==
    IF ~Truthy(item_type)
    THEN None
    ELSE LET it == item_type.v
         IN  IF it \in {"episode"} THEN Str("tvshow")
             ELSE IF it \in {"movie"} THEN Str("movie")
             ELSE IF it \in {"audio", "audiofile", "music", "musicvideo"} THEN Str("music")
             ELSE IF it \in {"livetvchannel", "tvchannel", "program"} THEN Str("tvchannel")
             ELSE Str(Lower(it))

_content_type_from_item_type(item_type) ==
    IF ~Truthy(item_type)
    THEN None
    ELSE LET it == Lower(item_type.v)
         IN  IF it \in {"episode"} THEN Str("tvshow")
             ELSE IF it \in {"movie"} THEN Str("movie")
             ELSE IF it \in {"audio", "audiofile", "music", "musicvideo"} THEN Str("music")
             ELSE IF it \in {"livetvchannel", "tvchannel", "program"} THEN Str("tvchannel")
             ELSE Str(it)

\* EmbyClient.item_primary_image_url
item_primary_image_url(item_id) ==
    Str("/Items/" \o item_id.v \o "/Images/Primary")

(***************************************************************************)
(* What the server sends.                                                  *)
(***************************************************************************)
SidA == Str("a")
SidB == Str("b")

PlayingState ==
    Obj([IsPaused |-> Bool(FALSE), IsPlaying |-> Bool(TRUE),
         PositionTicks |-> Num(300000000), PlayMethod |-> Str("Transcode"),
         TranscodingVideoCodec |-> Str("h264")])
PausedState == Obj([IsPaused |-> Bool(TRUE), IsPlaying |-> Bool(TRUE)])

\* the streams of a movie: a video stream without a frame rate, an audio stream
\* without a bit rate
MovieStreams ==
    List(<<Obj([Type |-> Str("Video"), Codec |-> Str("h264"), Width |-> Num(1920),
                Height |-> Num(1080), BitRate |-> Num(4500000)]),
           Obj([Type |-> Str("Audio"), Codec |-> Str("aac"), Channels |-> Num(2)])>>)
MovieItem ==
    Obj([Id |-> Str("x"), Type |-> Str("Movie"), Name |-> Str("Foo"),
         RunTimeTicks |-> Num(600000000), MediaStreams |-> MovieStreams])
\* a live-TV channel that carries its guide number and its current program
Channel1Item ==
    Obj([Id |-> Str("c1"), Type |-> Str("TvChannel"), Name |-> Str("News"),
         ChannelNumber |-> Str("5"), CurrentProgram |-> Obj([Id |-> Str("p1")])])
\* a live-TV program on another channel, with no guide number
Channel2Item ==
    Obj([Id |-> Str("p2"), Type |-> Str("Program"), ChannelId |-> Str("c2")])

A_movie ==
    Obj([Id |-> SidA, DeviceName |-> Str("Living Room TV"), UserName |-> Str("alice"),
         UserId |-> Str("u1"), NowPlayingItem |-> MovieItem, PlayState |-> PlayingState])
A_tv1 ==
    Obj([Id |-> SidA, DeviceName |-> Str("Living Room TV"), UserName |-> Str("alice"),
         NowPlayingItem |-> Channel1Item, PlayState |-> PausedState])
A_tv2 ==
    Obj([Id |-> SidA, DeviceName |-> Str("Phone"), NowPlayingItem |-> Channel2Item])
B_idle == Obj([Id |-> SidB, Client |-> Str("Emby Web"), UserName |-> Str("bob")])
RawSessions == {A_movie, A_tv1, A_tv2, B_idle}

\* a live-TV snapshot that names neither a channel nor a program
A_tv0 ==
    Obj([Id |-> SidA, DeviceName |-> Str("Phone"),
         NowPlayingItem |-> Obj([Type |-> Str("TvChannel"), Name |-> Str("News")])])

\* the values a play state can hold under each of the keys the state is derived from
PlayStateValues(k) ==
    CASE k = "IsPaused" -> {None, Bool(FALSE), Bool(TRUE)}
      [] k = "IsPlaying" -> {Bool(FALSE), Bool(TRUE)}
      [] k = "PlaybackStatus" -> {Str("Playing"), Str("Paused")}

\* the play states: each of the three keys missing or holding one of its values
PlayStates ==
    UNION {{Obj(f) : f \in {g \in [K -> {None, Bool(FALSE), Bool(TRUE),
                                          Str("Playing"), Str("Paused")}] :
                                \A k \in K : g[k] \in PlayStateValues(k)}} :
           K \in SUBSET {"IsPaused", "IsPlaying", "PlaybackStatus"}}

\* the sessions of a with every play state, with and without a now-playing item
StateSessions ==
    {Obj([Id |-> SidA, PlayState |-> ps]) : ps \in PlayStates}
    \cup {Obj([Id |-> SidA, PlayState |-> ps, NowPlayingItem |-> np]) :
             ps \in PlayStates, np \in {None, MovieItem}}

\* a key that a JSON object does not have
Missing == [t |-> "missing"]
\* the dict d with the value v at key k, or d when v is Missing
Put(d, k, v) ==
    IF v = Missing THEN d ELSE [x \in DOMAIN d \cup {k} |-> IF x = k THEN v ELSE d[x]]

\* what the server can send for a tick count: 30 s, 0 s, 1.5 s, JSON true, which is
\* the int 1 for Python's isinstance, a string, JSON null, or no key at all
TickValues ==
    {Num(300000000), Num(0), Num(15000000), Bool(TRUE), Str("300000000"), None, Missing}

\* the sessions of a that play a movie with each run time and each position
TickSession(runtime, position) ==
    Obj([Id |-> SidA,
         NowPlayingItem |->
             Obj(Put([Id |-> Str("x"), Type |-> Str("Movie")], "RunTimeTicks", runtime)),
         PlayState |-> Obj(Put([IsPlaying |-> Bool(TRUE)], "PositionTicks", position))])
TickSessions == {TickSession(rt, pt) : rt \in TickValues, pt \in TickValues}

\* the item types the server can send, in several spellings, empty, null or missing
ItemTypes ==
    {Str(s) : s \in {"Episode", "episode", "EPISODE", "Movie", "MOVIE", "Audio",
                      "AudioFile", "Music", "MusicVideo", "LiveTvChannel", "TvChannel",
                      "Program", "Trailer", "trailer", "Photo", ""}}
        \cup {None, Missing}

\* the sessions of a with an item of each type
TypeSession(type) ==
    Obj([Id |-> SidA, NowPlayingItem |-> Obj(Put([Name |-> Str("Foo")], "Type", type))])
TypeSessions == {TypeSession(type) : type \in ItemTypes}

\* the live-TV sessions of a: the item with or without its own id, its channel id and
\* its program id; the program of the session and the current program of the item as
\* objects with an id, missing, or no object; the program id of the session
LiveSession(id, channel, program, nowPlayingProgram, currentProgram, programId) ==
    Obj(Put(Put([Id |-> SidA,
                 NowPlayingItem |->
                     Obj(Put(Put(Put(Put([Type |-> Str("TvChannel")], "Id", id),
                                     "ChannelId", channel),
                                 "ProgramId", program),
                             "CurrentProgram", currentProgram))],
                "NowPlayingProgram", nowPlayingProgram),
            "NowPlayingProgramId", programId))
LiveSessions ==
    {LiveSession(id, channel, program, npp, cp, pid) :
        id \in {Missing, Str("c1")},
        channel \in {Missing, Num(7)},
        program \in {Missing, Str("p1")},
        npp \in {Missing, Obj([Id |-> Str("p2")]), Str("p2")},
        cp \in {Missing, Obj([Id |-> Num(3)])},
        pid \in {Missing, None, Str("p4")}}

\* entries of a poll result that name no session: an object with neither Id nor
\* SessionId, an object whose Id is empty, and a JSON null in place of an object
NoIdEntry == Obj([DeviceName |-> Str("Phone")])
EmptyIdEntry == Obj([Id |-> Str(""), SessionId |-> Str(""), Client |-> Str("Emby Web")])
MalformedEntries == {NoIdEntry, EmptyIdEntry, None}

\* the session lists a poll can deliver
SessionLists == UNION {[1..n -> RawSessions] : n \in 0..MaxLen}

\* the program objects the guide can return
Program1 ==
    Obj([Id |-> Str("p1"), Name |-> Str("Evening News"), ChannelId |-> Str("c1"),
         ChannelNumber |-> Str("5")])
Program9 == Obj([Id |-> Str("p9"), Name |-> Str("Late Show")])
Programs == {Program1, Program9}

\* the channel objects /LiveTv/Channels/{id} can return
Channels == {Obj([Id |-> Str("c2"), Number |-> Str("7")]), Obj([Id |-> Str("c2")])}

(***************************************************************************)
(* The session entity.                                                     *)
(***************************************************************************)
\* a variant of _maybe_schedule_epg_refresh in which a dropped trigger restarts the
\* window
_maybe_schedule_epg_refresh_restarting(e, now, hass) ==
    IF e.last_epg_fetch # None /\ now - e.last_epg_fetch.v < EpgThrottleSeconds
    THEN [ent |-> [e EXCEPT !.last_epg_fetch = Time(now)], launch |-> FALSE,
          trigger |-> TRUE]
    ELSE [ent |-> [e EXCEPT !.last_epg_fetch = Time(now)], launch |-> hass,
          trigger |-> TRUE]

\* a variant of _maybe_schedule_epg_refresh that waits for the program and stores it
\* before it returns
_maybe_schedule_epg_refresh_waiting(e, now, hass) ==
    IF e.last_epg_fetch # None /\ now - e.last_epg_fetch.v < EpgThrottleSeconds
    THEN [ent |-> e, launch |-> FALSE, trigger |-> TRUE]
    ELSE [ent |-> [e EXCEPT !.last_epg_fetch = Time(now),
                            !.epg = IF hass THEN Program9 ELSE @,
                            !.epg_source = IF hass THEN Str("channel_search") ELSE @],
          launch |-> FALSE, trigger |-> TRUE]

\* EmbySessionEntity._maybe_schedule_epg_refresh: e is the entity, now the clock and
\* hass whether the host has attached the entity (self.hass). The result is the
\* entity, whether self.hass.async_create_task was called (launch), and the record
\* that the trigger was called.
_maybe_schedule_epg_refresh(e, now, hass) ==
    IF e.last_epg_fetch # None /\ now - e.last_epg_fetch.v < EpgThrottleSeconds
    THEN [ent |-> e, launch |-> FALSE, trigger |-> TRUE]
    ELSE [ent |-> [e EXCEPT !.last_epg_fetch = Time(now)], launch |-> hass,
          trigger |-> TRUE]

\* s.get("Id") or s.get("SessionId")
SessionIdOf(s) == Or(Get(s, "Id"), Get(s, "SessionId"))

\* EmbySessionEntity._compute_object_id
_compute_object_id(session) ==
    LET base == Or(Or(Get(session, "DeviceName"), Get(session, "Client")), Str("emby"))
        user == Get(session, "UserName")
        joined == IF Truthy(user)
                  THEN "emby_" \o base.v \o "_" \o user.v
                  ELSE "emby_" \o base.v
        object_id == ha_slugify(joined)
    IN  IF StartsWithEmby(object_id) THEN object_id ELSE "emby_" \o object_id

\* a variant of PlayerState that lets the playing flag win over the paused flag
PlayerStatePlayingFirst(ps, np) ==
    IF Truthy(Get(ps, "IsPlaying")) \/ Get(ps, "PlaybackStatus") = Str("Playing")
    THEN Str("playing")
    ELSE IF Truthy(Get(ps, "IsPaused")) THEN Str("paused")
    ELSE IF Truthy(np) THEN Str("playing")
    ELSE Str("idle")

\* The state _apply_session derives (lines 299-307) from the play state ps and the
\* now-playing item np, each {} when the session has none.
PlayerState(ps, np) ==
    LET is_paused == Truthy(Get(ps, "IsPaused"))
        is_playing_flag ==
            Truthy(Get(ps, "IsPlaying")) \/ Get(ps, "PlaybackStatus") = Str("Playing")
        has_now_playing == Truthy(np)
    IN  IF is_paused THEN Str("paused")
        ELSE IF is_playing_flag \/ (has_now_playing /\ ~is_paused) THEN Str("playing")
        ELSE Str("idle")

\* The values the first part of _apply_session (lines 274-307) derives from the
\* session.
PlaybackValues(session) ==
    LET np == Or(Get(session, "NowPlayingItem"), EmptyDict)
        ps == Or(Get(session, "PlayState"), EmptyDict)
        content_id == StrOrNone(Get(np, "Id"))
    IN  [name_prefix |->
             Or(Or(Get(session, "DeviceName"), Get(session, "Client")), Str("Emby Client")),
         user |-> Get(session, "UserName"),
         app_name |->
             Or(Or(Get(session, "Client"), Get(session, "Application")), Str("Emby")),
         content_id |-> content_id,
         content_type |-> _content_type_from_item_type(Get(np, "Type")),
         media_title |-> Get(np, "Name"),
         series |-> Get(np, "SeriesName"),
         artist |-> Or(Get(np, "AlbumArtist"), Get(np, "Artist")),
         season |-> Get(np, "ParentIndexNumber"),
         episode |-> Get(np, "IndexNumber"),
         entity_picture |->
             IF Truthy(content_id) THEN item_primary_image_url(content_id) ELSE None,
         duration_s |-> _ticks_to_seconds(Get(np, "RunTimeTicks")),
         position_s |-> _ticks_to_seconds(Get(ps, "PositionTicks")),
         state |-> PlayerState(ps, np)]

\* a variant of LiveTvValues that looks at the program of the session before the
\* program id of the item
LiveTvValuesSessionFirst(session) ==
    LET np == Or(Get(session, "NowPlayingItem"), EmptyDict)
        nowPlayingProgram == Get(session, "NowPlayingProgram")
        currentProgram == Get(np, "CurrentProgram")
    IN  [channel_id |->
             IF Get(np, "ChannelId") # None
             THEN PyStr(Get(np, "ChannelId"))
             ELSE StrOrNone(Get(np, "Id")),
         program_id |->
             Or(Or(Or(IF IsDict(nowPlayingProgram) /\ Get(nowPlayingProgram, "Id") # None
                      THEN PyStr(Get(nowPlayingProgram, "Id")) ELSE None,
                      StrOrNone(Get(np, "ProgramId"))),
                   IF IsDict(currentProgram) /\ Get(currentProgram, "Id") # None
                   THEN PyStr(Get(currentProgram, "Id")) ELSE None),
                StrOrNone(Get(session, "NowPlayingProgramId"))),
         cn |-> Or(Get(np, "ChannelNumber"), Get(np, "Number"))]

\* The values the live-TV part of _apply_session (lines 313-329) derives from the
\* session: the channel id, the program id and the channel number cn.
LiveTvValues(session) ==
    LET np == Or(Get(session, "NowPlayingItem"), EmptyDict)
        nowPlayingProgram == Get(session, "NowPlayingProgram")
        currentProgram == Get(np, "CurrentProgram")
    IN  [channel_id |->
             IF Get(np, "ChannelId") # None
             THEN PyStr(Get(np, "ChannelId"))
             ELSE StrOrNone(Get(np, "Id")),
         program_id |->
             Or(Or(Or(StrOrNone(Get(np, "ProgramId")),
                      IF IsDict(nowPlayingProgram) /\ Get(nowPlayingProgram, "Id") # None
                      THEN PyStr(Get(nowPlayingProgram, "Id")) ELSE None),
                   IF IsDict(currentProgram) /\ Get(currentProgram, "Id") # None
                   THEN PyStr(Get(currentProgram, "Id")) ELSE None),
                StrOrNone(Get(session, "NowPlayingProgramId"))),
         cn |-> Or(Get(np, "ChannelNumber"), Get(np, "Number"))]

\* PlaybackValues and LiveTvValues of every session the server can send, computed once
SessionValues ==
    [s \in RawSessions \cup {A_tv0} |->
        [playback |-> PlaybackValues(s), live |-> LiveTvValues(s)]]
StateSessionValues ==
    [s \in StateSessions |-> [playback |-> PlaybackValues(s), live |-> LiveTvValues(s)]]
FieldSessionValues ==
    [s \in TickSessions \cup LiveSessions \cup TypeSessions |->
        [playback |-> PlaybackValues(s), live |-> LiveTvValues(s)]]
ValuesOf(session) ==
    IF session \in RawSessions \/ session = A_tv0 THEN SessionValues[session]
    ELSE IF session \in StateSessions THEN StateSessionValues[session]
    ELSE FieldSessionValues[session]

\* a variant of AssignLiveTv that drops the program snapshot of the entity
AssignLiveTvDropsEpg(e, v) ==
    [e EXCEPT
       !.channel_id = v.channel_id,
       !.program_id = v.program_id,
       !.channel_number = IF v.cn # None THEN PyStr(v.cn) ELSE @,
       !.epg = None,
       !.epg_source = None]

\* The assignments of the live-TV part of _apply_session (lines 313-331) with the
\* values v of the session.
AssignLiveTv(e, v) ==
    [e EXCEPT
       !.channel_id = v.channel_id,
       !.program_id = v.program_id,
       !.channel_number = IF v.cn # None THEN PyStr(v.cn) ELSE @]

\* The live-TV part of _apply_session for tvchannel content (lines 313-331), before
\* the EPG trigger.
LiveTvFields(e, session) == AssignLiveTv(e, ValuesOf(session).live)

\* a variant of AssignPlayback that keeps the position timestamp of the entity when
\* the session has no position
AssignPlaybackKeepsTimestamp(e, v, now) ==
    [e EXCEPT
       !.name_prefix = v.name_prefix,
       !.user = v.user,
       !.app_name = v.app_name,
       !.content_id = v.content_id,
       !.content_type = v.content_type,
       !.media_title = v.media_title,
       !.series = v.series,
       !.artist = v.artist,
       !.season = v.season,
       !.episode = v.episode,
       !.entity_picture = v.entity_picture,
       !.duration_s = v.duration_s,
       !.position_s = v.position_s,
       !.position_updated_at = IF v.position_s # None THEN Time(now) ELSE @,
       !.state = v.state,
       !.program_id = None,
       !.channel_id = None]

\* The assignments of the first part of _apply_session (lines 274-311) with the
\* values v of the session.
AssignPlayback(e, v, now) ==
    [e EXCEPT
       !.name_prefix = v.name_prefix,
       !.user = v.user,
       !.app_name = v.app_name,
       !.content_id = v.content_id,
       !.content_type = v.content_type,
       !.media_title = v.media_title,
       !.series = v.series,
       !.artist = v.artist,
       !.season = v.season,
       !.episode = v.episode,
       !.entity_picture = v.entity_picture,
       !.duration_s = v.duration_s,
       !.position_s = v.position_s,
       !.position_updated_at = IF v.position_s # None THEN Time(now) ELSE None,
       !.state = v.state,
       !.program_id = None,
       !.channel_id = None]

\* The fields _apply_session assigns from the session before the live-TV part
\* (lines 274-311).
PlaybackFields(e, session, now) ==
    AssignPlayback(e, ValuesOf(session).playback, now)

\* a variant of ClearLiveTv that keeps the channel number
ClearLiveTvKeepsNumber(e) ==
    [e EXCEPT !.channel_id = None, !.program_id = None, !.epg = None, !.epg_source = None]

\* The else branch of _apply_session (lines 337-343): the content is not live TV.
ClearLiveTv(e) ==
    [e EXCEPT !.channel_id = None,
              !.program_id = None,
              !.epg = None,
              !.epg_source = None,
              !.channel_number = None]

\* a variant of _apply_session that computes the object id again from the session
_apply_session_renaming(e, session, now, hass) ==
    [ent |-> [PlaybackFields(e, session, now) EXCEPT
                !.suggested_object_id = _compute_object_id(session)],
     launch |-> FALSE, trigger |-> FALSE]

\* a variant of _apply_session that calls the EPG trigger for every live-TV snapshot
_apply_session_always_triggers(e, session, now, hass) ==
    LET e1 == PlaybackFields(e, session, now)
    IN  IF e1.content_type = Str("tvchannel")
        THEN _maybe_schedule_epg_refresh(LiveTvFields(e1, session), now, hass)
        ELSE [ent |-> ClearLiveTv(e1), launch |-> FALSE, trigger |-> FALSE]

\* EmbySessionEntity._apply_session. The result is the entity, whether an EPG fetch
\* task was created and whether _maybe_schedule_epg_refresh was called (trigger).
_apply_session(e, session, now, hass) ==
    LET e1 == PlaybackFields(e, session, now)
    IN  IF e1.content_type = Str("tvchannel")
        THEN LET e2 == LiveTvFields(e1, session)
             IN  IF Truthy(e2.channel_id) \/ Truthy(e2.program_id)
                 THEN _maybe_schedule_epg_refresh(e2, now, hass)
                 ELSE [ent |-> e2, launch |-> FALSE, trigger |-> FALSE]
        ELSE [ent |-> ClearLiveTv(e1), launch |-> FALSE, trigger |-> FALSE]

\* EmbySessionEntity.__init__ before its last line (lines 142-182): the identity of
\* the entity and its fields with their first values.
BlankEntity(session) ==
    LET sid == SessionIdOf(session)
        oid == _compute_object_id(session)
    IN           [session_id |-> sid,
                  unique_id |-> "emby_" \o PyStr(sid).v,
                  suggested_object_id |->
                      IF StartsWithEmby(oid) THEN oid ELSE "emby_" \o oid,
                  available |-> TRUE,
                  name_prefix |-> None,
                  user |-> None,
                  media_title |-> None,
                  artist |-> None,
                  series |-> None,
                  state |-> Str("idle"),
                  duration_s |-> None,
                  position_s |-> None,
                  position_updated_at |-> None,
                  content_id |-> None,
                  content_type |-> None,
                  season |-> None,
                  episode |-> None,
                  entity_picture |-> None,
                  app_name |-> None,
                  channel_id |-> None,
                  channel_number |-> None,
                  program_id |-> None,
                  epg |-> None,
                  epg_source |-> None,
                  last_epg_fetch |-> None]

\* EmbySessionEntity.__init__: the entity built from the session that was first seen.
\* The constructor runs before the host attaches the entity: self.hass is None.
NewEntity(session, now) == _apply_session(BlankEntity(session), session, now, FALSE).ent

\* a variant of mark_gone that also resets the playback state
mark_gone_resetting(e) ==
    [e EXCEPT !.available = FALSE, !.state = Str("idle"), !.position_s = None,
              !.position_updated_at = None]

\* a variant of mark_gone that leaves the entity as it is
mark_gone_nothing(e) == e

\* EmbySessionEntity.mark_gone
mark_gone(e) == [e EXCEPT !.available = FALSE]


(***************************************************************************)
(* The API client, as the sets of results a call can have.                 *)
(***************************************************************************)
Returned(v) == [raised |-> FALSE, value |-> v]
Raised == [raised |-> TRUE, value |-> None]

\* EmbyClient.async_get_current_program: the first item of the answer, None when
\* there is none, or the exception of a failed request
async_get_current_program(channel_id) ==
    {Returned(p) : p \in Programs \cup {None}} \cup {Raised}

\* EmbyClient.async_get_program_for_session: the program fetched by id when the
\* request succeeds with an object; else the current program of the channel
async_get_program_for_session(channel_id, program_id) ==
    (IF Truthy(program_id) THEN {Returned(p) : p \in Programs} ELSE {})
    \cup
    (IF Truthy(channel_id)
     THEN async_get_current_program(channel_id)
     ELSE {Returned(None)})

\* EmbyClient.async_get_channel: the channel object, or None (also on failure)
async_get_channel(channel_id) == {Returned(c) : c \in Channels \cup {None}}

\* EmbyClient.async_pause, async_unpause, async_stop and async_seek: the call and the
\* path it posts
async_pause(session_id) ==
    [call |-> "pause", session_id |-> session_id,
     path |-> "/Sessions/" \o session_id.v \o "/Playing/Pause"]

async_unpause(session_id) ==
    [call |-> "unpause", session_id |-> session_id,
     path |-> "/Sessions/" \o session_id.v \o "/Playing/Unpause"]

async_stop(session_id) ==
    [call |-> "stop", session_id |-> session_id,
     path |-> "/Sessions/" \o session_id.v \o "/Playing/Stop"]

async_seek(session_id, position_seconds) ==
    [call |-> "seek", session_id |-> session_id,
     path |-> "/Sessions/" \o session_id.v \o "/Playing/Seek?PositionTicks="
                \o ToString(position_seconds * TicksPerSecond)]

(***************************************************************************)
(* State.                                                                  *)
(***************************************************************************)
VARIABLES
    entities,     \* _sync_entities' dict: session id -> EmbySessionEntity
    data,         \* coordinator.data, the session list of the latest poll
    now,          \* datetime.now(timezone.utc), in seconds
    attached,     \* the ids of the entities the host has added: self.hass is set and
                  \* _handle_coordinator_update is subscribed
    host_added,   \* how often each id's entity was handed to async_add_entities
    constructed,  \* how often EmbySessionEntity was constructed for each id
    tasks,        \* the EPG fetch tasks in flight, in launch order
    launched,     \* history: when the latest EPG fetch of each id was launched
    commands,     \* the command handlers that were called, in call order: where each
                  \* is, the client calls it has issued and the refreshes it has requested
    client,       \* the EmbyClient: its cached user id, _user_id
    calls,        \* the calls of the client in flight, one frame for each caller
    coordinators, \* the two DataUpdateCoordinators: data, last_update_success and the
                  \* exception of the last refresh
    started,      \* how many calls of the client were started
    entry,        \* the config entry: whether it is loaded, how often it was set up,
                  \* the listeners of the sessions coordinator of each setup and how
                  \* often a notification has invoked the _sync_entities of each setup
    last          \* history: the step that led to this state

vars ==
    <<entities, data, now, attached, host_added, constructed, tasks, launched, commands,
      client, calls, coordinators, started, entry, last>>

\* the variables of the client and the coordinators
ClientVars == <<client, calls, coordinators, started>>

\* the session ids of the model
SessionIds == {SidA, SidB}

\* the usable ids of a session list
IdsOf(sessions) ==
    {SessionIdOf(sessions[i]) :
        i \in {j \in 1..Len(sessions) :
                  IsDict(sessions[j]) /\ Truthy(SessionIdOf(sessions[j]))}}

\* s without its i-th element
RemoveAt(s, i) == SubSeq(s, 1, i - 1) \o SubSeq(s, i + 1, Len(s))

\* the number of tasks of the entity sid in the sequence tks
TasksOf(tks, sid) == Cardinality({i \in 1..Len(tks) : tks[i].sid = sid})

(***************************************************************************)
(* The reconciliation pass.                                                *)
(***************************************************************************)
\* the task self.hass.async_create_task(self._async_refresh_epg()) starts: it runs to
\* its first await, the call of async_get_program_for_session with the entity's
\* channel and program id. The field at is history: the time of the launch, which
\* _maybe_schedule_epg_refresh has just written to the entity's _last_epg_fetch
NewEpgTask(e) ==
    [sid |-> e.session_id, pc |-> "program", channel_id |-> e.channel_id,
     program_id |-> e.program_id, epg |-> None, at |-> e.last_epg_fetch]

\* The then branch (lines 112-114): an entity is constructed for the session s.
SyncNew(st, s, clock) ==
    LET sid == SessionIdOf(s)
    IN  [st EXCEPT !.seen = @ \cup {sid},
                   !.entities = (sid :> NewEntity(s, clock)) @@ @,
                   !.new_entities = Append(@, sid),
                   !.constructed = [@ EXCEPT ![sid] = @ + 1]]

\* The else branch of the loop of _sync_entities (line 117): the session s updates the
\* entity it names in place.
SyncExisting(st, s, clock, att) ==
    LET sid == SessionIdOf(s)
        r == _apply_session(st.entities[sid], s, clock, sid \in att)
    IN  [st EXCEPT !.seen = @ \cup {sid},
                   !.entities = [@ EXCEPT ![sid] = r.ent],
                   !.tasks = IF r.launch THEN Append(@, NewEpgTask(r.ent)) ELSE @]

\* a variant of SyncOne that constructs an entity for every session with an id
SyncOneAlwaysNew(st, s, clock, att) ==
    IF ~Truthy(SessionIdOf(s)) THEN st ELSE SyncNew(st, s, clock)

\* The body of the loop of _sync_entities for one session s. st holds the dict, the
\* seen set, the new entities, the constructions and the tasks, and whether the pass
\* has raised: s.get raises AttributeError when s is no dict (line 106).
SyncOne(st, s, clock, att) ==
    IF ~IsDict(s)
    THEN [st EXCEPT !.raised = TRUE]
    ELSE IF ~Truthy(SessionIdOf(s))
    THEN st
    ELSE IF SessionIdOf(s) \notin DOMAIN st.entities
    THEN SyncNew(st, s, clock)
    ELSE SyncExisting(st, s, clock, att)

RECURSIVE SyncLoop(_, _, _, _, _)
SyncLoop(st, sessions, i, clock, att) ==
    IF i > Len(sessions) \/ st.raised
    THEN st
    ELSE SyncLoop(SyncOne(st, sessions[i], clock, att), sessions, i + 1, clock, att)

\* async_add_entities(new_entities, True): the host is handed every entity of the list
RECURSIVE async_add_entities(_, _)
async_add_entities(added, new_entities) ==
    IF new_entities = <<>>
    THEN added
    ELSE async_add_entities([added EXCEPT ![Head(new_entities)] = @ + 1],
                            Tail(new_entities))

\* a variant of MarkAbsent that drops the entities not seen from the dict
MarkAbsentRemoves(ents, seen) ==
    [sid \in DOMAIN ents \cap seen |-> ents[sid]]

\* the entities the pass marks gone (lines 120-121)
MarkAbsent(ents, seen) ==
    [sid \in DOMAIN ents |-> IF sid \in seen THEN ents[sid] ELSE mark_gone(ents[sid])]

\* lines 119-125 of _sync_entities, which an exception of the loop skips
SyncFinish(done) ==
    IF done.raised
    THEN done
    ELSE [done EXCEPT
            !.entities = MarkAbsent(done.entities, done.seen),
            !.host_added = IF done.new_entities # <<>>
                           THEN async_add_entities(@, done.new_entities)
                           ELSE @]

\* _sync_entities: the loop, mark_gone for the entities not seen, the registration
_sync_entities(st, sessions, clock, att) ==
    SyncFinish(SyncLoop([st EXCEPT !.seen = {}, !.new_entities = <<>>],
                        sessions, 1, clock, att))

\* the index of the session the loop of _handle_coordinator_update stops at: the first
\* of the list with the entity's id, 0 if there is none
FirstMatch(sessions, sid) ==
    IF \E i \in 1..Len(sessions) : SessionIdOf(sessions[i]) = sid
    THEN CHOOSE i \in 1..Len(sessions) :
            /\ SessionIdOf(sessions[i]) = sid
            /\ \A j \in 1..(i - 1) : SessionIdOf(sessions[j]) # sid
    ELSE 0

\* EmbySessionEntity._handle_coordinator_update of the attached entity sid
_handle_coordinator_update(st, sid, sessions, clock) ==
    LET i == FirstMatch(sessions, sid)
    IN  IF i > 0
        THEN LET r == _apply_session(st.entities[sid], sessions[i], clock, TRUE)
             IN  [st EXCEPT !.entities = [@ EXCEPT ![sid] = [r.ent EXCEPT !.available = TRUE]],
                            !.tasks = IF r.launch THEN Append(@, NewEpgTask(r.ent)) ELSE @]
        ELSE [st EXCEPT !.entities = [@ EXCEPT ![sid] = [@ EXCEPT !.available = FALSE]]]

\* The handlers of the attached entities. Each writes its own entity only, so the
\* order in which they run decides nothing but the order of the tasks of different
\* entities.
RECURSIVE HandlerLoop(_, _, _, _)
HandlerLoop(st, todo, sessions, clock) ==
    IF todo = {}
    THEN st
    ELSE LET sid == CHOOSE x \in todo : TRUE
         IN  HandlerLoop(_handle_coordinator_update(st, sid, sessions, clock),
                         todo \ {sid}, sessions, clock)

\* the listeners after _sync_entities: an exception of a listener leaves the
\* coordinator's loop over its listeners, so that none of them runs
HandlersAfter(st, sessions, clock, att) ==
    IF st.raised THEN st ELSE HandlerLoop(st, att, sessions, clock)

\* DataUpdateCoordinator.async_update_listeners: the listeners in the order they
\* subscribed, _sync_entities first (media_player.py:128), then the handler of every
\* entity the host had attached
UpdateListeners(st, sessions, clock, att) ==
    HandlersAfter(_sync_entities(st, sessions, clock, att), sessions, clock, att)

(***************************************************************************)
(* The system.                                                             *)
(***************************************************************************)
\* the history of a step that is no notification
Step(op) == [op |-> op, quiet |-> FALSE, restored |-> {}]

Init ==
    /\ entities = <<>>
    /\ data = <<>>
    /\ now = 0
    /\ attached = {}
    /\ host_added = [sid \in SessionIds |-> 0]
    /\ constructed = [sid \in SessionIds |-> 0]
    /\ tasks = <<>>
    /\ launched = [sid \in SessionIds |-> None]
    /\ commands = <<>>
    /\ client = [_user_id |-> None]
    /\ calls = [caller \in {"sessions", "library", "server_stats", "library_stats"} |->
                   [pc |-> "idle"]]
    /\ coordinators =
           [c \in {"sessions", "library"} |->
               [data |-> None, last_update_success |-> TRUE, last_exception |-> None]]
    /\ started = 0
    /\ entry = [loaded |-> FALSE, setups |-> 0,
                listeners |-> [g \in 1..MaxSetups |-> {}],
                notified |-> [g \in 1..MaxSetups |-> 0]]
    /\ last = Step("init")

\* A poll result arrives and the coordinator notifies its listeners. The first pass
\* is the call of _sync_entities in async_setup_entry (media_player.py:127). The
\* history records the entities that went from unavailable to available; it is quiet
\* until a step of an EPG fetch task changes what the notification has left. When the
\* first pass raises, async_setup_entry raises before it subscribes _sync_entities
\* (line 128): no notification reaches the pass after that.
Notify(sessions) ==
    /\ Len(tasks) < MaxTasks
    /\ last.op # "setup_raised"
    /\ \E st \in {UpdateListeners(
                     [entities |-> entities, seen |-> {}, new_entities |-> <<>>,
                      host_added |-> host_added, constructed |-> constructed,
                      tasks |-> tasks, raised |-> FALSE],
                     sessions, now, attached)} :
          /\ entities' = st.entities
          /\ host_added' = st.host_added
          /\ constructed' = st.constructed
          /\ tasks' = st.tasks
          /\ launched' = [sid \in SessionIds |->
                             IF TasksOf(st.tasks, sid) > TasksOf(tasks, sid)
                             THEN Time(now) ELSE launched[sid]]
          /\ last' = [op |-> IF ~st.raised THEN "notify"
                              ELSE IF last.op = "init" THEN "setup_raised"
                              ELSE "notify_raised",
                      quiet |-> TRUE,
                      restored |-> {sid \in DOMAIN entities :
                                      ~entities[sid].available /\ st.entities[sid].available}]
    /\ data' = sessions
    /\ UNCHANGED ClientVars
    /\ UNCHANGED entry
    /\ UNCHANGED <<now, attached, commands>>

\* The host finishes adding an entity it was handed: self.hass is set and the entity's
\* _handle_coordinator_update subscribes to the coordinator.
HostAdd(sid) ==
    /\ host_added[sid] > 0
    /\ sid \notin attached
    /\ attached' = attached \cup {sid}
    /\ last' = [op |-> "host_add", quiet |-> last.quiet, restored |-> {}]
    /\ UNCHANGED ClientVars
    /\ UNCHANGED entry
    /\ UNCHANGED <<entities, data, now, host_added, constructed, tasks, launched, commands>>

\* Time passes: the interval between two polls. No code of the integration runs.
Tick ==
    /\ now + TickSeconds <= MaxTicks * TickSeconds
    /\ now' = now + TickSeconds
    /\ UNCHANGED ClientVars
    /\ UNCHANGED entry
    /\ UNCHANGED <<entities, data, attached, host_added, constructed, tasks, launched,
                   commands, last>>

(***************************************************************************)
(* The EPG fetch task, _async_refresh_epg, from one await to the next.     *)
(***************************************************************************)
\* a variant of EpgFailed that tags the failure as a fetch with no result
EpgFailedTagsNone(e) == [e EXCEPT !.epg = None, !.epg_source = Str("none")]

\* the except branch (lines 384-387)
EpgFailed(e) == [e EXCEPT !.epg = None, !.epg_source = Str("error")]

\* the result-store step (lines 377-381)
EpgStore(e, epg) ==
    [e EXCEPT
       !.epg = epg,
       !.epg_source =
           IF Truthy(epg) /\ IsDict(epg)
           THEN IF Truthy(e.program_id) /\ Get(epg, "Id") = e.program_id
                THEN Str("program_id")
                ELSE Str("channel_search")
           ELSE Str("none")]

\* a variant of EpgAdopt that adopts the channel number but not the channel id
EpgAdoptNumberOnly(e, epg) ==
    LET cn == Or(Get(epg, "ChannelNumber"), Get(epg, "Number"))
    IN  [e EXCEPT !.channel_number = IF cn # None THEN PyStr(cn) ELSE @]

\* the adoption of the program's channel id and number (lines 365-369)
EpgAdopt(e, epg) ==
    LET cn == Or(Get(epg, "ChannelNumber"), Get(epg, "Number"))
    IN  [e EXCEPT
           !.channel_id = IF Truthy(Get(epg, "ChannelId"))
                          THEN PyStr(Get(epg, "ChannelId")) ELSE @,
           !.channel_number = IF cn # None THEN PyStr(cn) ELSE @]

\* the history of a step of an EPG fetch task: the call that returned the result r
EpgReturned(call, r) ==
    [op |-> IF r.raised THEN "epg_raised" ELSE "epg", quiet |-> FALSE, restored |-> {},
     call |-> call, result |-> r.value]

\* the task i ends: the entity's fields become e
EpgEnd(i, e) ==
    /\ entities' = [entities EXCEPT ![tasks[i].sid] = e]
    /\ tasks' = RemoveAt(tasks, i)

\* lines 363-381, with the program lookups' result epg: the task ends, or awaits the
\* channel-detail lookup
EpgAfterLookups(i, epg) ==
    LET e == entities[tasks[i].sid]
    IN  IF IsDict(epg)
        THEN LET e1 == EpgAdopt(e, epg)
             IN  IF e1.channel_number = None /\ Truthy(e1.channel_id)
                 THEN /\ entities' = [entities EXCEPT ![tasks[i].sid] = e1]
                      /\ tasks' = [tasks EXCEPT ![i] =
                             [@ EXCEPT !.pc = "channel",
                                       !.channel_id = e1.channel_id,
                                       !.epg = epg]]
                 ELSE EpgEnd(i, EpgStore(e1, epg))
        ELSE EpgEnd(i, EpgStore(e, epg))

\* async_get_program_for_session returns or raises (lines 357-361)
EpgProgramReturns(i, r) ==
    /\ tasks[i].pc = "program"
    /\ r \in async_get_program_for_session(tasks[i].channel_id, tasks[i].program_id)
    /\ LET e == entities[tasks[i].sid]
       IN  IF r.raised
           THEN EpgEnd(i, EpgFailed(e))
           ELSE IF ~Truthy(r.value) /\ Truthy(e.channel_id)
           THEN /\ tasks' = [tasks EXCEPT ![i] =
                       [@ EXCEPT !.pc = "current", !.channel_id = e.channel_id]]
                /\ UNCHANGED entities
           ELSE EpgAfterLookups(i, r.value)
    /\ last' = EpgReturned("program", r)
    /\ UNCHANGED ClientVars
    /\ UNCHANGED entry
    /\ UNCHANGED <<data, now, attached, host_added, constructed, launched, commands>>

\* async_get_current_program returns or raises (line 361)
EpgCurrentReturns(i, r) ==
    /\ tasks[i].pc = "current"
    /\ r \in async_get_current_program(tasks[i].channel_id)
    /\ IF r.raised
       THEN EpgEnd(i, EpgFailed(entities[tasks[i].sid]))
       ELSE EpgAfterLookups(i, r.value)
    /\ last' = EpgReturned("current", r)
    /\ UNCHANGED ClientVars
    /\ UNCHANGED entry
    /\ UNCHANGED <<data, now, attached, host_added, constructed, launched, commands>>

\* async_get_channel returns (lines 371-381)
EpgChannelReturns(i, r) ==
    /\ tasks[i].pc = "channel"
    /\ r \in async_get_channel(tasks[i].channel_id)
    /\ LET e == entities[tasks[i].sid]
           ch == r.value
           cn2 == IF IsDict(ch) THEN Or(Get(ch, "Number"), Get(ch, "ChannelNumber")) ELSE None
           e1 == IF cn2 # None THEN [e EXCEPT !.channel_number = PyStr(cn2)] ELSE e
       IN  EpgEnd(i, EpgStore(e1, tasks[i].epg))
    /\ last' = EpgReturned("channel", r)
    /\ UNCHANGED ClientVars
    /\ UNCHANGED entry
    /\ UNCHANGED <<data, now, attached, host_added, constructed, launched, commands>>

\* the results any call can have
CallResults ==
    {Returned(v) : v \in Programs \cup Channels \cup {None}} \cup {Raised}

Next ==
    \/ \E sessions \in SessionLists : Notify(sessions)
    \/ \E sid \in SessionIds : HostAdd(sid)
    \/ Tick
    \/ \E i \in 1..Len(tasks), r \in CallResults : EpgProgramReturns(i, r)
    \/ \E i \in 1..Len(tasks), r \in CallResults : EpgCurrentReturns(i, r)
    \/ \E i \in 1..Len(tasks), r \in CallResults : EpgChannelReturns(i, r)

Spec == Init /\ [][Next]_vars

(***************************************************************************)
(* A session that stays on live TV: every poll result has the session a     *)
(* with a live-TV item that names its channel. The coordinator's timer      *)
(* keeps firing, the host attaches the entities it is handed and the calls  *)
(* of a fetch return.                                                       *)
(***************************************************************************)
LiveLists == {<<A_tv1>>, <<A_tv2>>}

\* a step of an EPG fetch task
EpgNext ==
    \/ \E i \in 1..Len(tasks), r \in CallResults : EpgProgramReturns(i, r)
    \/ \E i \in 1..Len(tasks), r \in CallResults : EpgCurrentReturns(i, r)
    \/ \E i \in 1..Len(tasks), r \in CallResults : EpgChannelReturns(i, r)

LiveNext ==
    \/ \E sessions \in LiveLists : Notify(sessions)
    \/ HostAdd(SidA)
    \/ Tick
    \/ EpgNext

\* a poll can be delivered: the guard of Notify, which is ENABLED <<Notify>>_vars,
\* since the poll of another list than the last one changes data
PollEnabled == Len(tasks) < MaxTasks /\ last.op # "setup_raised"

\* the weak fairness WF_vars(\E sessions \in LiveLists : Notify(sessions)) of the
\* polls, with ENABLED written out as PollEnabled
PollFairness ==
    \/ []<>~PollEnabled
    \/ []<><<\E sessions \in LiveLists : Notify(sessions)>>_vars

SpecLive ==
    /\ Init
    /\ [][LiveNext]_vars
    /\ PollFairness
    /\ WF_vars(HostAdd(SidA))
    /\ WF_vars(Tick)
    /\ WF_vars(EpgNext)

(***************************************************************************)
(* The reconciliation pass over poll results with entries that name no      *)
(* session.                                                                 *)
(***************************************************************************)
\* the poll results: the session lists, and any entry of them a malformed one
MalformedLists ==
    UNION {[1..n -> {A_movie, B_idle} \cup MalformedEntries] : n \in 0..MaxLen}

MalformedNext ==
    \/ \E sessions \in MalformedLists : Notify(sessions)
    \/ \E sid \in SessionIds : HostAdd(sid)
    \/ Tick

SpecMalformed == Init /\ [][MalformedNext]_vars

(***************************************************************************)
(* The command handlers of an entity, beside the polls.                     *)
(***************************************************************************)
CommandNames == {"play", "pause", "stop", "seek"}

\* the positions a seek is called with, in seconds
SeekPositions == {30}

\* a variant of ClientCall whose play handler calls the facade's pause
ClientCallPlayPauses(command, session_id, position) ==
    CASE command = "play" -> async_pause(session_id)
      [] command = "pause" -> async_pause(session_id)
      [] command = "stop" -> async_stop(session_id)
      [] command = "seek" -> async_seek(session_id, position)

\* the first line of async_media_play, async_media_pause, async_media_stop and
\* async_media_seek: the client call of the handler
ClientCall(command, session_id, position) ==
    CASE command = "play" -> async_unpause(session_id)
      [] command = "pause" -> async_pause(session_id)
      [] command = "stop" -> async_stop(session_id)
      [] command = "seek" -> async_seek(session_id, position)

\* The host calls a command handler of an attached entity: the handler runs to its
\* first await, the client call with self._session_id.
CommandStart(sid, command, position) ==
    /\ Len(commands) < MaxCommands
    /\ sid \in attached
    /\ commands' = Append(commands,
                          [sid |-> sid, command |-> command, pc |-> "call",
                           calls |-> <<ClientCall(command, entities[sid].session_id,
                                                  position)>>,
                           refreshes |-> 0])
    /\ last' = Step("command")
    /\ UNCHANGED ClientVars
    /\ UNCHANGED entry
    /\ UNCHANGED <<entities, data, now, attached, host_added, constructed, tasks, launched>>

\* The client call of the handler i returns, and the handler awaits
\* coordinator.async_request_refresh(); or the call raises, and so does the handler.
CommandCallReturns(i, raised) ==
    /\ commands[i].pc = "call"
    /\ commands' = [commands EXCEPT ![i] =
                       IF raised
                       THEN [@ EXCEPT !.pc = "failed"]
                       ELSE [@ EXCEPT !.pc = "refresh", !.refreshes = @ + 1]]
    /\ last' = Step("command")
    /\ UNCHANGED ClientVars
    /\ UNCHANGED entry
    /\ UNCHANGED <<entities, data, now, attached, host_added, constructed, tasks, launched>>

\* coordinator.async_request_refresh() returns and the handler i ends. The poll the
\* coordinator makes for the request arrives as a notification.
CommandRefreshReturns(i) ==
    /\ commands[i].pc = "refresh"
    /\ commands' = [commands EXCEPT ![i] = [@ EXCEPT !.pc = "done"]]
    /\ last' = Step("command")
    /\ UNCHANGED ClientVars
    /\ UNCHANGED entry
    /\ UNCHANGED <<entities, data, now, attached, host_added, constructed, tasks, launched>>

\* the session a with the movie, paused
A_paused == Obj([Id |-> SidA, PlayState |-> PausedState, NowPlayingItem |-> MovieItem])

\* the poll results beside the commands
CommandLists == {<<>>, <<A_movie>>, <<A_paused>>}

CommandNext ==
    \/ \E sessions \in CommandLists : Notify(sessions)
    \/ \E sid \in SessionIds : HostAdd(sid)
    \/ Tick
    \/ \E sid \in SessionIds, command \in CommandNames, position \in SeekPositions :
          CommandStart(sid, command, position)
    \/ \E i \in 1..Len(commands), raised \in BOOLEAN : CommandCallReturns(i, raised)
    \/ \E i \in 1..Len(commands) : CommandRefreshReturns(i)

SpecCommands == Init /\ [][CommandNext]_vars

(***************************************************************************)
(* One entity and the session snapshots applied to it: the constructor and  *)
(* _apply_session with every snapshot of ApplySessions, attached or not.    *)
(***************************************************************************)
\* the snapshots of the session a
ApplySessions == StateSessions \cup {A_movie, A_tv0, A_tv1, A_tv2}

\* the history of a step that applied a snapshot: trigger tells whether
\* _maybe_schedule_epg_refresh was called
Applied(op, trigger) ==
    [op |-> op, quiet |-> FALSE, restored |-> {}, trigger |-> trigger]

\* EmbySessionEntity(coordinator, client, s) and its registration (lines 112-114, 125)
ApplyConstruct(s) ==
    /\ SidA \notin DOMAIN entities
    /\ entities' = (SidA :> NewEntity(s, now))
    /\ constructed' = [constructed EXCEPT ![SidA] = @ + 1]
    /\ host_added' = [host_added EXCEPT ![SidA] = @ + 1]
    /\ data' = <<s>>
    /\ last' = Applied("construct", _apply_session(BlankEntity(s), s, now, FALSE).trigger)
    /\ UNCHANGED ClientVars
    /\ UNCHANGED entry
    /\ UNCHANGED <<now, attached, tasks, launched, commands>>

\* entities[sid]._apply_session(s) (line 117)
Apply(s) ==
    /\ SidA \in DOMAIN entities
    /\ \E r \in {_apply_session(entities[SidA], s, now, SidA \in attached)} :
          /\ entities' = [entities EXCEPT ![SidA] = r.ent]
          /\ tasks' = IF r.launch THEN Append(tasks, NewEpgTask(r.ent)) ELSE tasks
          /\ launched' = IF r.launch THEN [launched EXCEPT ![SidA] = Time(now)] ELSE launched
          /\ last' = Applied("apply", r.trigger)
    /\ data' = <<s>>
    /\ UNCHANGED ClientVars
    /\ UNCHANGED entry
    /\ UNCHANGED <<now, attached, host_added, constructed, commands>>

ApplyNext ==
    \/ \E s \in ApplySessions : ApplyConstruct(s)
    \/ \E s \in ApplySessions : Apply(s)
    \/ HostAdd(SidA)
    \/ Tick

SpecApply == Init /\ [][ApplyNext]_vars

(***************************************************************************)
(* The snapshot fields: _apply_session applied to the sessions with every   *)
(* tick count and to the live-TV sessions with every choice of ids.         *)
(***************************************************************************)
FieldSessions == TickSessions \cup LiveSessions \cup TypeSessions

FieldNext ==
    \/ \E s \in FieldSessions : ApplyConstruct(s)
    \/ \E s \in FieldSessions : Apply(s)
    \/ Tick

SpecFields == Init /\ [][FieldNext]_vars

(***************************************************************************)
(* The attributes of an entity.                                            *)
(***************************************************************************)
\* EmbySessionEntity.name
name(e) ==
    IF Truthy(e.user)
    THEN Str(PyStr(e.name_prefix).v \o " (" \o PyStr(e.user).v \o ")")
    ELSE e.name_prefix

\* _strip_parentheticals, of the names of the entities: the device and client names
\* the server sends hold no parenthesis, so the only one is the " (user)" that name
\* appends, and the text before it has no trailing space and no double space
_strip_parentheticals(e, text) ==
    IF ~Truthy(text) THEN text
    ELSE IF Truthy(e.user) /\ text = name(e) THEN PyStr(e.name_prefix)
    ELSE text

\* _epg_series_from
_epg_series_from(item) ==
    IF ~IsDict(item) THEN None
    ELSE Or(Or(Or(Or(Or(Get(item, "SeriesName"), Get(item, "SeriesTitle")),
                     Get(item, "ProgramSeriesTitle")),
                  Get(item, "ShowName")),
               Get(item, "Program")),
            Get(item, "Name"))

\* EmbyClient.user_profile_image_url
user_profile_image_url(user_id) ==
    Str("/Users/" \o PyStr(user_id).v \o "/Images/Primary")

\* the first of the streams with the given type, None if there is none
FirstStream(streams, type) ==
    IF \E i \in 1..Len(streams) : Get(streams[i], "Type") = Str(type)
    THEN streams[CHOOSE i \in 1..Len(streams) :
                    /\ Get(streams[i], "Type") = Str(type)
                    /\ \A j \in 1..(i - 1) : Get(streams[j], "Type") # Str(type)]
    ELSE None

\* float(v), of the tick counts the server sends
FloatOf(v) ==
    CASE v.t = "num" -> v.v
      [] v.t = "bool" -> IF v.v THEN 1 ELSE 0
      [] v = Str("300000000") -> 300000000

\* round(position / runtime * 100, 1): the float is held as the two tick counts it is
\* computed from, whose quotient can exceed the integers of the model
Percent(position, runtime) == [t |-> "percent", position |-> position, runtime |-> runtime]

\* f"{n // 1000}kbps"
Kbps(n) == Str(ToString(n.v \div 1000) \o "kbps")

\* EmbySessionEntity._get_playback_info
_get_playback_info(session) ==
    LET np == Or(Get(session, "NowPlayingItem"), EmptyDict)
        ps == Or(Get(session, "PlayState"), EmptyDict)
        media_streams == GetDefault(np, "MediaStreams", List(<<>>))
        video == IF Truthy(media_streams) THEN FirstStream(media_streams.v, "Video")
                 ELSE None
        audio == IF Truthy(media_streams) THEN FirstStream(media_streams.v, "Audio")
                 ELSE None
        play_method ==
            Str(Lower(Or(Or(Get(ps, "PlayMethod"), Get(session, "PlayMethod")), Str("")).v))
        position_ticks == Get(ps, "PositionTicks")
        runtime_ticks == Get(np, "RunTimeTicks")
    IN  [video |->
             IF video = None THEN EmptyDict
             ELSE Obj([codec |-> GetDefault(video, "Codec", Str("Unknown")),
                       width |-> Get(video, "Width"),
                       height |-> Get(video, "Height"),
                       bitrate |-> Get(video, "BitRate"),
                       framerate |-> Get(video, "RealFrameRate"),
                       aspect_ratio |-> Get(video, "AspectRatio")]),
         audio |->
             IF audio = None THEN EmptyDict
             ELSE Obj([codec |-> GetDefault(audio, "Codec", Str("Unknown")),
                       channels |-> Get(audio, "Channels"),
                       bitrate |-> Get(audio, "BitRate"),
                       sample_rate |-> Get(audio, "SampleRate"),
                       language |-> Get(audio, "Language")]),
         transcoding |->
             Obj([is_transcoding |-> Bool(play_method = Str("transcode")),
                  video_codec |-> Get(ps, "TranscodingVideoCodec"),
                  audio_codec |-> Get(ps, "TranscodingAudioCodec"),
                  reason |-> GetDefault(ps, "TranscodingReason", List(<<>>)),
                  bitrate |-> Get(ps, "Bitrate"),
                  play_method |-> play_method]),
         playback_percent |->
             IF position_ticks # None /\ Truthy(runtime_ticks)
             THEN Percent(FloatOf(position_ticks), FloatOf(runtime_ticks))
             ELSE None]

\* lines 480-505 of extra_state_attributes: the names and the picture of the user
NameAttributes(e, sessions) ==
    LET i == FirstMatch(sessions, e.session_id)
        session_data == IF i > 0 THEN sessions[i] ELSE EmptyDict
        user_id == Get(session_data, "UserId")
        base_friendly == Or(name(e), Str(""))
        clean_friendly == Or(_strip_parentheticals(e, base_friendly), base_friendly)
        a1 == [app_name |-> e.app_name, user |-> e.user, friendly_name |-> name(e),
               user_img |-> IF Truthy(user_id) THEN user_profile_image_url(user_id)
                            ELSE None]
    IN  Put(a1, "custom_name",
            IF Truthy(e.user) /\ Truthy(clean_friendly)
            THEN Str(PyStr(e.user).v \o " on " \o clean_friendly.v)
            ELSE IF Truthy(clean_friendly) THEN clean_friendly
            ELSE IF Truthy(e.user) THEN e.user
            ELSE Missing)

\* lines 507-546 of extra_state_attributes: the details of the playback, added to attrs
PlaybackAttributes(attrs, e, sessions) ==
    LET i == FirstMatch(sessions, e.session_id)
        session_data == IF i > 0 THEN sessions[i] ELSE EmptyDict
        info == _get_playback_info(session_data)
        video == info.video
        audio == info.audio
        trans == info.transcoding
        transcoding == Truthy(Get(trans, "is_transcoding"))
        When(cond, v) == IF cond THEN v ELSE Missing
        a1 == IF ~Truthy(video) THEN attrs
              ELSE Put(Put(Put(Put(attrs, "video_codec", Get(video, "codec")),
                               "video_resolution",
                               When(Truthy(Get(video, "height")) /\ Truthy(Get(video, "width")),
                                    Str(PyStr(Get(video, "width")).v \o "x"
                                            \o PyStr(Get(video, "height")).v))),
                           "video_framerate", Get(video, "framerate")),
                       "video_bitrate",
                       When(Truthy(Get(video, "bitrate")), Kbps(Get(video, "bitrate"))))
        a2 == IF ~Truthy(audio) THEN a1
              ELSE Put(Put(Put(a1, "audio_codec", Get(audio, "codec")),
                           "audio_channels",
                           When(Truthy(Get(audio, "channels")),
                                Str(PyStr(Get(audio, "channels")).v \o " channels"))),
                       "audio_bitrate",
                       When(Truthy(Get(audio, "bitrate")), Kbps(Get(audio, "bitrate"))))
        a3 == Put(Put(Put(Put(a2, "playback_method",
                              IF transcoding THEN Str("transcoding") ELSE Str("direct")),
                          "transcode_video_codec",
                          When(transcoding /\ Truthy(Get(trans, "video_codec")),
                               Get(trans, "video_codec"))),
                      "transcode_audio_codec",
                      When(transcoding /\ Truthy(Get(trans, "audio_codec")),
                           Get(trans, "audio_codec"))),
                  "transcode_bitrate",
                  When(transcoding /\ Truthy(Get(trans, "bitrate")),
                       Kbps(Get(trans, "bitrate"))))
    IN  IF ~Truthy(session_data) THEN attrs
        ELSE Put(a3, "playback_percent",
                 IF info.playback_percent # None THEN info.playback_percent ELSE Missing)

\* lines 548-576 of extra_state_attributes: the series of an item that is not live
\* TV, the program and the channel of one that is, added to attrs
ContentAttributes(attrs, e) ==
    LET When(cond, v) == IF cond THEN v ELSE Missing
        epg == Or(e.epg, EmptyDict)
        program_id == Get(epg, "Id")
        a1 == Put(Put(Put(attrs, "media_series_title", When(e.series # None, e.series)),
                      "media_season", When(e.season # None, e.season)),
                  "media_episode", When(e.episode # None, e.episode))
        a2 == [k \in DOMAIN attrs \cup {"program_series", "program_overview",
                                        "program_start", "program_end", "channel_id",
                                        "channel_number", "program_id", "channel_name"} |->
                  CASE k = "program_series" -> _epg_series_from(epg)
                    [] k = "program_overview" -> Get(epg, "Overview")
                    [] k = "program_start" -> Get(epg, "StartDate")
                    [] k = "program_end" -> Get(epg, "EndDate")
                    [] k = "channel_id" -> e.channel_id
                    [] k = "channel_number" -> e.channel_number
                    [] k = "program_id" -> e.program_id
                    [] k = "channel_name" -> Or(e.media_title, Get(epg, "ChannelName"))
                    [] OTHER -> attrs[k]]
    IN  IF e.content_type # Str("tvchannel") THEN a1
        ELSE Put(Put(a2, "program_source", When(Truthy(e.epg_source), e.epg_source)),
                 "program_image_url",
                 IF Truthy(program_id) THEN item_primary_image_url(PyStr(program_id))
                 ELSE IF Truthy(e.program_id) THEN item_primary_image_url(e.program_id)
                 ELSE Missing)

\* EmbySessionEntity.extra_state_attributes, with coordinator.data the list sessions
extra_state_attributes(e, sessions) ==
    ContentAttributes(PlaybackAttributes(NameAttributes(e, sessions), e, sessions), e)

(***************************************************************************)
(* The API client and the two coordinators, from one request to the next.  *)
(* A call of the client is a frame: where it waits (pc), where              *)
(* async_get_user_id returns to (ret) and the locals of the functions it is *)
(* in. The answers of the server are drawn from small sets.                 *)
(***************************************************************************)
\* the exception of a failed request: EmbyAuthError of _get for a 401, or the
\* exception of aiohttp
RaisedOf(error) == [raised |-> TRUE, value |-> None, error |-> error]

\* s[:n]
Take(s, n) == SubSeq(s, 1, IF Len(s) < n THEN Len(s) ELSE n)

\* the limit _async_update_library passes to the three fetches
LibraryLimit == 5
\* the number of activity log entries async_get_server_stats keeps
ActivityLimit == 10

\* the callers of the client: the refreshes of the two coordinators and the updates
\* of the two statistics sensors
Coordinators == {"sessions", "library"}
Callers == Coordinators \cup {"server_stats", "library_stats"}

\* the n sessions the server returns for a query
SessionsOf(query, n) == [i \in 1..n |-> Obj([Id |-> Str(query), Index |-> Num(i)])]

FirstUser == Obj([Id |-> Str("first")])
AdminUser == Obj([Id |-> Str("admin"), Policy |-> Obj([IsAdministrator |-> Bool(TRUE)])])
DatedItem == Obj([Id |-> Str("i1"), Name |-> Str("Pilot"),
                  PremiereDate |-> Time(MaxTicks * TickSeconds)])
UndatedItem == Obj([Id |-> Str("i2"), Name |-> Str("Finale")])

ConnectError == RaisedOf("ClientConnectorError")
AuthError == RaisedOf("EmbyAuthError")

\* what _get can return or raise for the request a frame waits for
Responses(pc) ==
    CASE pc = "sessions" ->
            {Returned(List(SessionsOf("all", n))) : n \in 0..MaxLen}
                \cup {Returned(Str("")), AuthError, ConnectError, RaisedOf("TimeoutError")}
      [] pc = "sessions2" ->
            {Returned(List(SessionsOf("mine", n))) : n \in 0..MaxLen}
                \cup {Returned(Str("")), AuthError, ConnectError}
      [] pc = "users_me" ->
            {Returned(Obj([Id |-> Str("me")])), Returned(Obj([Name |-> Str("me")])),
             AuthError, ConnectError}
      [] pc = "users" ->
            {Returned(List(<<>>)), Returned(List(<<FirstUser>>)),
             Returned(List(<<FirstUser, AdminUser>>)), ConnectError}
      [] pc \in {"upcoming", "upcoming_items", "movies", "episodes"} ->
            {Returned(Obj([Items |-> List(<<>>)])),
             Returned(Obj([Items |-> List(<<DatedItem>>)])),
             Returned(List(<<UndatedItem, DatedItem>>)), ConnectError}
      [] pc = "info" ->
            {Returned(Obj([Version |-> Str("4.8")])), Returned(Str("")), ConnectError}
      [] pc = "activity" ->
            {Returned(Obj([Items |-> List(<<Str("login")>>)])),
             Returned(Obj([TotalRecordCount |-> Num(0)])), ConnectError}
      [] pc = "counts" ->
            {Returned(Obj([MovieCount |-> Num(1)])), ConnectError}
      [] pc = "views" ->
            {Returned(Obj([Items |-> List(<<Str("Movies")>>)])), ConnectError}
      [] OTHER -> {}

\* async_get_user_id, lines 79-86: the id of the answer of /Users/Me, None when the
\* request failed or the answer has none
UserIdOfMe(r) ==
    IF ~r.raised /\ IsDict(r.value) /\ Truthy(Get(r.value, "Id"))
    THEN Get(r.value, "Id")
    ELSE None

\* async_get_user_id, lines 88-98: the id of the first administrator of the answer of
\* /Users, else of its first user
UserIdOfUsers(r) ==
    IF r.raised \/ ~IsList(r.value) \/ r.value.v = <<>>
    THEN None
    ELSE LET users == r.value.v
             admins == {i \in 1..Len(users) :
                           Truthy(Get(GetDefault(users[i], "Policy", EmptyDict),
                                      "IsAdministrator"))}
             candidate ==
                 IF admins # {}
                 THEN users[CHOOSE i \in admins : \A j \in admins : i <= j]
                 ELSE users[1]
         IN  IF Truthy(Get(candidate, "Id")) THEN Get(candidate, "Id") ELSE None

\* the list of an answer that is a dict with a list of Items, or a list
ItemsOf(v) ==
    IF IsDict(v) /\ IsList(Get(v, "Items")) THEN Get(v, "Items").v
    ELSE IF IsList(v) THEN v.v
    ELSE <<>>

\* _compact: d without the keys whose value is None, '', [] or {}
_compact(d) ==
    Obj([k \in {x \in DOMAIN d :
                   d[x] \notin {None, Str(""), List(<<>>), EmptyDict}} |-> d[k]])

\* _normalize_episode, of the fields the items of the model carry
_normalize_episode(item) ==
    _compact([id |-> Get(item, "Id"), title |-> Get(item, "Name"),
              premiere_date |-> Get(item, "PremiereDate")])

\* _normalize_movie, of the fields the items of the model carry
_normalize_movie(item) ==
    _compact([id |-> Get(item, "Id"), title |-> Get(item, "Name"),
              premiere_date |-> Or(Get(item, "PremiereDate"), Get(item, "ReleaseDate"))])

\* async_get_latest_movies and async_get_latest_episodes, after _user_items returned
LatestMovies(items) ==
    List([i \in 1..Len(Take(items, LibraryLimit)) |-> _normalize_movie(items[i])])
LatestEpisodes(items) ==
    List([i \in 1..Len(Take(items, LibraryLimit)) |-> _normalize_episode(items[i])])

\* s ordered by premiere date
RECURSIVE SortByPremiere(_)
SortByPremiere(s) ==
    IF s = <<>>
    THEN <<>>
    ELSE LET m == CHOOSE i \in 1..Len(s) :
                      \A j \in 1..Len(s) :
                          \/ s[i].v.premiere_date.v < s[j].v.premiere_date.v
                          \/ s[i].v.premiere_date.v = s[j].v.premiere_date.v /\ i <= j
         IN  <<s[m]>> \o SortByPremiere(RemoveAt(s, m))

\* async_get_upcoming_episodes, lines 503-512: the dicts among the items that
\* premiere at clock or later, normalized, by date, at most LibraryLimit
UpcomingEpisodes(items, clock) ==
    LET kept == SelectSeq(items,
                    LAMBDA x : /\ IsDict(x)
                               /\ Get(x, "PremiereDate").t = "time"
                               /\ Get(x, "PremiereDate").v >= clock)
        normed == [i \in 1..Len(kept) |-> _normalize_episode(kept[i])]
    IN  List(Take(SortByPremiere(normed), LibraryLimit))

\* async_get_sessions, lines 119-121: the answer of the filtered query replaces the
\* first answer when it is longer
FallbackSessionsNotShorter(sessions, sessions2) ==
    IF Len(sessions2) >= Len(sessions) THEN sessions2 ELSE sessions

FallbackSessions(sessions, sessions2) ==
    IF Len(sessions2) > Len(sessions) THEN sessions2 ELSE sessions

\* no call
Idle == [pc |-> "idle"]

\* the frame of a call that has just been made
NewFrame(caller) ==
    [kind |-> caller, pc |-> "idle", ret |-> "", uid |-> None,
     sessions |-> <<>>,
     out |-> [upcoming_episodes |-> List(<<>>), latest_movies |-> List(<<>>),
              latest_episodes |-> List(<<>>)],
     info |-> EmptyDict, activities |-> Obj([Items |-> List(<<>>)]),
     items |-> EmptyDict, views |-> Obj([Items |-> List(<<>>)])]

\* the call waits for the answer of a request
Suspended(f, pc) == [frame |-> [f EXCEPT !.pc = pc], finished |-> FALSE, result |-> None]
\* the call returns or raises
Finished(result) == [frame |-> Idle, finished |-> TRUE, result |-> result]

\* async_get_sessions returns or raises: to the coordinator, or to
\* async_get_server_stats, which takes no sessions when it raised (lines 217-226)
SessionsReturn(f, outcome) ==
    IF f.kind = "sessions"
    THEN Finished(outcome)
    ELSE Finished(Returned(Obj(
             [system_info |-> f.info,
              recent_activities |->
                  List(Take(GetDefault(f.activities, "Items", List(<<>>)).v,
                            ActivityLimit)),
              active_sessions |-> IF outcome.raised THEN List(<<>>) ELSE outcome.value])))

RECURSIVE async_get_user_id(_, _, _)

\* _async_update_library: _safe has the list of a fetch, [] when it raised, and the
\* next fetch is called
StoreUpcoming(f, c, l) ==
    async_get_user_id([f EXCEPT !.out.upcoming_episodes = l], c, "movies")
StoreMovies(f, c, l) ==
    async_get_user_id([f EXCEPT !.out.latest_movies = l], c, "episodes")
StoreEpisodes(f, l) ==
    Finished(Returned(Obj([f.out EXCEPT !.latest_episodes = l])))

\* async_get_user_id returns f.uid to the function that called it: the function goes
\* on to its request, or returns its empty value when there is no user id
UserIdReturns(f, c, ret) ==
    CASE ret = "sessions2" ->
            IF Truthy(f.uid)
            THEN Suspended(f, "sessions2")
            ELSE SessionsReturn(f, Returned(List(f.sessions)))
      [] ret = "upcoming" ->
            IF Truthy(f.uid) THEN Suspended(f, "upcoming")
            ELSE StoreUpcoming(f, c, List(<<>>))
      [] ret = "upcoming_items" ->
            IF Truthy(f.uid) THEN Suspended(f, "upcoming_items")
            ELSE StoreUpcoming(f, c, List(<<>>))
      [] ret = "movies" ->
            IF Truthy(f.uid) THEN Suspended(f, "movies")
            ELSE StoreMovies(f, c, List(<<>>))
      [] ret = "episodes" ->
            IF Truthy(f.uid) THEN Suspended(f, "episodes")
            ELSE StoreEpisodes(f, List(<<>>))
      [] ret = "counts" ->
            IF Truthy(f.uid) THEN Suspended(f, "counts")
            ELSE Finished(Returned(EmptyDict))

\* async_get_user_id, called by a function that goes on at ret: the cached id is
\* returned at once, else /Users/Me is requested
async_get_user_id(f, c, ret) ==
    IF Truthy(c._user_id)
    THEN UserIdReturns([f EXCEPT !.uid = c._user_id], c, ret)
    ELSE Suspended([f EXCEPT !.ret = ret], "users_me")

\* the client after the answer r of the request of frame f: async_get_user_id caches
\* the id it has resolved
ClientAfter(f, c, r) ==
    CASE f.pc = "users_me" /\ UserIdOfMe(r) # None -> [c EXCEPT !._user_id = UserIdOfMe(r)]
      [] f.pc = "users" /\ UserIdOfUsers(r) # None -> [c EXCEPT !._user_id = UserIdOfUsers(r)]
      [] OTHER -> c

\* the call of frame f goes on with the answer r of its request, up to its next
\* request or its end
_get_returns(f, c, r, clock) ==
    CASE f.pc = "users_me" ->
            IF UserIdOfMe(r) # None
            THEN UserIdReturns([f EXCEPT !.uid = UserIdOfMe(r)], ClientAfter(f, c, r), f.ret)
            ELSE Suspended(f, "users")
      [] f.pc = "users" ->
            UserIdReturns([f EXCEPT !.uid = UserIdOfUsers(r)], ClientAfter(f, c, r), f.ret)
      [] f.pc = "sessions" ->
            IF r.raised
            THEN SessionsReturn(f, r)
            ELSE LET sessions == IF IsList(r.value) THEN r.value.v ELSE <<>>
                 IN  IF Len(sessions) <= 1
                     THEN async_get_user_id([f EXCEPT !.sessions = sessions], c,
                                            "sessions2")
                     ELSE SessionsReturn(f, Returned(List(sessions)))
      [] f.pc = "sessions2" ->
            IF r.raised
            THEN SessionsReturn(f, r)
            ELSE LET sessions2 == IF IsList(r.value) THEN r.value.v ELSE <<>>
                 IN  SessionsReturn(f,
                         Returned(List(FallbackSessions(f.sessions, sessions2))))
      [] f.pc = "upcoming" ->
            IF r.raised
            THEN StoreUpcoming(f, c, List(<<>>))
            ELSE IF ItemsOf(r.value) = <<>>
                 THEN async_get_user_id(f, c, "upcoming_items")
                 ELSE StoreUpcoming(f, c, UpcomingEpisodes(ItemsOf(r.value), clock))
      [] f.pc = "upcoming_items" ->
            IF r.raised
            THEN StoreUpcoming(f, c, List(<<>>))
            ELSE StoreUpcoming(f, c, UpcomingEpisodes(ItemsOf(r.value), clock))
      [] f.pc = "movies" ->
            IF r.raised
            THEN StoreMovies(f, c, List(<<>>))
            ELSE StoreMovies(f, c, LatestMovies(ItemsOf(r.value)))
      [] f.pc = "episodes" ->
            IF r.raised
            THEN StoreEpisodes(f, List(<<>>))
            ELSE StoreEpisodes(f, LatestEpisodes(ItemsOf(r.value)))
      [] f.pc = "info" ->
            IF r.raised
            THEN Finished(r)
            ELSE Suspended([f EXCEPT !.info = IF IsDict(r.value) THEN r.value
                                               ELSE EmptyDict],
                           "activity")
      [] f.pc = "activity" ->
            Suspended([f EXCEPT !.activities =
                           IF ~r.raised /\ IsDict(r.value) THEN r.value ELSE @],
                      "sessions")
      [] f.pc = "counts" ->
            Suspended([f EXCEPT !.items =
                           IF ~r.raised /\ IsDict(r.value) THEN r.value ELSE @],
                      "views")
      [] f.pc = "views" ->
            LET views == IF ~r.raised /\ IsDict(r.value) THEN r.value ELSE f.views
            IN  Finished(Returned(Obj(
                    [counts |-> f.items,
                     libraries |-> GetDefault(views, "Items", List(<<>>))])))

\* the call of a caller, up to its first request
CallOf(caller, c) ==
    CASE caller = "sessions" -> Suspended(NewFrame(caller), "sessions")
      [] caller = "library" -> async_get_user_id(NewFrame(caller), c, "upcoming")
      [] caller = "server_stats" -> Suspended(NewFrame(caller), "info")
      [] caller = "library_stats" -> async_get_user_id(NewFrame(caller), c, "counts")

\* DataUpdateCoordinator: the refresh ends. What the update method returned becomes
\* the data; when it raised, whatever the exception, the data stay, the update has
\* failed and the next refresh is due after the interval as ever.
RefreshDone(co, result) ==
    IF result.raised
    THEN [co EXCEPT !.last_update_success = FALSE, !.last_exception = Str(result.error)]
    ELSE [data |-> result.value, last_update_success |-> TRUE, last_exception |-> None]

\* the history of a step of a call
CallStep(op, caller, request, response, st) ==
    [op |-> op, quiet |-> FALSE, restored |-> {}, caller |-> caller,
     request |-> request, response |-> response, finished |-> st.finished,
     result |-> st.result]

CallFinishes(caller, st) ==
    /\ calls' = [calls EXCEPT ![caller] = st.frame]
    /\ coordinators' =
           IF st.finished /\ caller \in Coordinators
           THEN [coordinators EXCEPT ![caller] = RefreshDone(@, st.result)]
           ELSE coordinators

\* The timer of a coordinator fires and its update method is called, or the host
\* updates a statistics sensor: the call runs up to its first request.
CallStart(caller) ==
    /\ started < MaxCalls
    /\ calls[caller].pc = "idle"
    /\ started' = started + 1
    /\ \E st \in {CallOf(caller, client)} :
          /\ CallFinishes(caller, st)
          /\ last' = CallStep("call", caller, "", None, st)
    /\ UNCHANGED <<client, entities, data, now, attached, host_added, constructed, tasks,
                   launched, commands, entry>>

\* The request a call waits for is answered, and the call runs up to its next request
\* or to its end.
GetReturns(caller, r) ==
    /\ calls[caller].pc # "idle"
    /\ r \in Responses(calls[caller].pc)
    /\ client' = ClientAfter(calls[caller], client, r)
    /\ \E st \in {_get_returns(calls[caller], client, r, now)} :
          /\ CallFinishes(caller, st)
          /\ last' = CallStep("get", caller, calls[caller].pc, r, st)
    /\ UNCHANGED <<started, entities, data, now, attached, host_added, constructed, tasks,
                   launched, commands, entry>>

AllResponses ==
    UNION {Responses(pc) : pc \in {"sessions", "sessions2", "users_me", "users",
                                    "upcoming", "info", "activity", "counts", "views"}}

ClientNext ==
    \/ \E caller \in Callers : CallStart(caller)
    \/ \E caller \in Callers, r \in AllResponses : GetReturns(caller, r)

SpecClient == Init /\ [][ClientNext]_vars

(***************************************************************************)
(* The config entry, from its setup to its unload and reload. Every setup  *)
(* builds its own sessions coordinator (__init__.py, lines 48-54) and its  *)
(* own _sync_entities closure with its own dict (media_player.py, lines    *)
(* 96-99). A coordinator of the host polls as long as it has a listener,   *)
(* and the host unsubscribes the handler of an entity when it removes the  *)
(* entity.                                                                 *)
(***************************************************************************)
Setups == 1..MaxSetups

\* _sync_entities of the setup g, called with a list that names a new session or not:
\* the entity of a new session is handed to async_add_entities, and when the host adds
\* it (added), its _handle_coordinator_update subscribes to the coordinator of g
SyncEntitiesOf(e, g, new, added) ==
    IF new /\ added
    THEN [e EXCEPT !.listeners = [@ EXCEPT ![g] = @ \cup {"_handle_coordinator_update"}]]
    ELSE e

\* async_setup_entry of __init__.py, which forwards to async_setup_entry of
\* media_player.py: the first pass runs (line 127) and _sync_entities subscribes to the
\* new coordinator (line 128). The function async_add_listener returns, which would
\* unsubscribe it, is dropped.
SetupEntry(e, new) ==
    LET g == e.setups + 1
        e1 == [e EXCEPT !.loaded = TRUE, !.setups = g]
        e2 == SyncEntitiesOf(e1, g, new, TRUE)
    IN  [e2 EXCEPT !.listeners = [@ EXCEPT ![g] = @ \cup {"_sync_entities"}]]

\* async_unload_entry: when the host has unloaded the platforms (unload_ok) it has
\* removed their entities, whose handlers are unsubscribed, and the entry's data are
\* popped from hass.data (lines 105-109); nothing unsubscribes _sync_entities
UnloadEntry(e, unload_ok) ==
    IF unload_ok
    THEN [e EXCEPT !.loaded = FALSE,
                   !.listeners = [g \in Setups |-> @[g] \ {"_handle_coordinator_update"}]]
    ELSE e

\* the history of a step of the config entry
EntryStep(op, g, ok) == [op |-> op, quiet |-> FALSE, restored |-> {}, setup |-> g, ok |-> ok]

EntityVars ==
    <<entities, data, now, attached, host_added, constructed, tasks, launched, commands>>

\* the host sets the entry up
async_setup_entry(new) ==
    /\ ~entry.loaded
    /\ entry.setups < MaxSetups
    /\ entry' = SetupEntry(entry, new)
    /\ last' = EntryStep("setup", entry.setups + 1, TRUE)
    /\ UNCHANGED ClientVars
    /\ UNCHANGED EntityVars

\* the host unloads the entry
async_unload_entry(unload_ok) ==
    /\ entry.loaded
    /\ entry' = UnloadEntry(entry, unload_ok)
    /\ last' = EntryStep("unload", entry.setups, unload_ok)
    /\ UNCHANGED ClientVars
    /\ UNCHANGED EntityVars

\* async_reload_entry (lines 113-116): the unload, then the setup whatever the unload
\* has returned. The host refuses to set up the platforms of an entry whose platforms
\* are still loaded: the setup after a failed unload subscribes nothing.
async_reload_entry(unload_ok, new) ==
    /\ entry.loaded
    /\ entry.setups < MaxSetups
    /\ entry' = IF unload_ok THEN SetupEntry(UnloadEntry(entry, TRUE), new) ELSE entry
    /\ last' = EntryStep("reload", entry.setups, unload_ok)
    /\ UNCHANGED ClientVars
    /\ UNCHANGED EntityVars

\* The sessions coordinator of the setup g has refreshed and notifies its listeners:
\* _sync_entities of g runs if it is subscribed. The platform of an unloaded setup is
\* gone: whether the host still adds an entity handed to it is not determined.
CoordinatorNotifies(g, new, added) ==
    /\ entry.listeners[g] # {}
    /\ entry.notified[g] < MaxRuns
    /\ (entry.loaded /\ g = entry.setups) => added
    /\ entry' = IF "_sync_entities" \in entry.listeners[g]
                THEN [SyncEntitiesOf(entry, g, new, added) EXCEPT
                         !.notified = [@ EXCEPT ![g] = @ + 1]]
                ELSE entry
    /\ last' = EntryStep("refresh", g, TRUE)
    /\ UNCHANGED ClientVars
    /\ UNCHANGED EntityVars

EntryNext ==
    \/ \E new \in BOOLEAN : async_setup_entry(new)
    \/ \E unload_ok \in BOOLEAN : async_unload_entry(unload_ok)
    \/ \E unload_ok \in BOOLEAN, new \in BOOLEAN : async_reload_entry(unload_ok, new)
    \/ \E g \in Setups, new \in BOOLEAN, added \in BOOLEAN : CoordinatorNotifies(g, new, added)

SpecEntry == Init /\ [][EntryNext]_vars

(***************************************************************************)
(* Properties.                                                             *)
(***************************************************************************)
\* the indices of the entries of sessions with the id sid
Matches(sessions, sid) == {i \in 1..Len(sessions) : SessionIdOf(sessions[i]) = sid}

\* the last entry of sessions with the id sid
LastMatch(sessions, sid) ==
    CHOOSE i \in Matches(sessions, sid) : \A j \in Matches(sessions, sid) : j <= i

\* the entry of the latest notification that was applied last to the entity sid: the
\* handler of an attached entity applies the first match after the pass
AppliedLast(sid) ==
    IF sid \in attached
    THEN data[FirstMatch(data, sid)]
    ELSE data[LastMatch(data, sid)]

\* a notification has just been processed and the entity sid is in its list
JustNotified(sid) ==
    last.op = "notify" /\ sid \in DOMAIN entities /\ sid \in IdsOf(data)

\* the normalized snapshot fields of an entity
NormalizedFields ==
    {"state", "content_type", "content_id", "media_title", "duration_s", "position_s",
     "channel_id", "channel_number", "program_id"}

\* the fields of the session snapshot
SnapshotFields ==
    NormalizedFields \cup {"series", "artist", "season", "episode"}

\* the live-TV fields of an entity
LiveTvFieldNames == {"channel_id", "program_id", "channel_number", "epg", "epg_source"}

\* C1: every session id that was ever seen has been constructed once and handed to
\* async_add_entities once, in the pass that first saw it, and no id more than once:
\* not when it reappears, not when a list names it twice.
C1_RegisteredOnce ==
    \A sid \in SessionIds :
        IF sid \in DOMAIN entities
        THEN host_added[sid] = 1 /\ constructed[sid] = 1
        ELSE host_added[sid] = 0 /\ constructed[sid] = 0

\* C1: the entity of a was marked gone, a is back with two entries in the list, and it
\* was registered once
C1_Reappeared ==
    /\ last.op = "notify"
    /\ SidA \in DOMAIN entities
    /\ SidA \notin attached
    /\ ~entities[SidA].available
    /\ Cardinality(Matches(data, SidA)) = 2
    /\ host_added[SidA] = 1

C3_IdentityFixed ==
    [][\A sid \in DOMAIN entities' :
          /\ entities'[sid].unique_id = "emby_" \o sid.v
          /\ sid \in DOMAIN entities =>
                /\ entities'[sid].unique_id = entities[sid].unique_id
                /\ entities'[sid].suggested_object_id = entities[sid].suggested_object_id]_vars

\* C3: the entity was constructed for "Living Room TV" of alice, the session now
\* reports the device "Phone" with no user, the entity was marked gone and an EPG fetch
\* has completed
C3_Renamed ==
    /\ SidA \in DOMAIN entities
    /\ entities[SidA].suggested_object_id = "emby_living_room_tv_alice"
    /\ entities[SidA].name_prefix = Str("Phone")
    /\ entities[SidA].user = None
    /\ entities[SidA].epg_source # None
    /\ ~entities[SidA].available

\* C4: a notification with the list of the notification before it leaves the keys of
\* the map, the registrations, and the availability and the normalized fields of every
\* entity as the notification before left them.
C4_SameListSameResult ==
    [][(last'.op = "notify" /\ now' = now /\ last.quiet /\ data' = data) =>
          /\ DOMAIN entities' = DOMAIN entities
          /\ host_added' = host_added
          /\ constructed' = constructed
          /\ \A sid \in DOMAIN entities :
                /\ entities'[sid].available = entities[sid].available
                /\ \A f \in NormalizedFields : entities'[sid][f] = entities[sid][f]]_vars

\* C5: after a notification, the fields of every entity of the list are the ones of
\* the last entry of the list with its id.
C5_LastEntryWins ==
    \A sid \in SessionIds :
        JustNotified(sid) =>
            LET v == ValuesOf(data[LastMatch(data, sid)]).playback
            IN  \A f \in DOMAIN v : entities[sid][f] = v[f]

\* C6: when the EPG trigger has run for an entity, a fetch was launched for it less
\* than 20 seconds before the trigger or by the trigger: at the recorded last-fetch
\* time.
C6_OneFetchPerWindow ==
    \A sid \in SessionIds :
        (/\ JustNotified(sid)
         /\ entities[sid].content_type = Str("tvchannel")
         /\ Truthy(entities[sid].channel_id) \/ Truthy(entities[sid].program_id))
        => launched[sid] = entities[sid].last_epg_fetch

\* C7: when a call of an EPG fetch raises, the task ends, the entity has no program
\* snapshot and the source "error", and nothing else changes: not the other fields of
\* the entity, not the other entities, not the other tasks, not the registrations.
C7_FailureContained ==
    [][(last'.op = "epg_raised" /\ now' = now) =>
          \E i \in 1..Len(tasks) :
              /\ tasks' = RemoveAt(tasks, i)
              /\ entities' = [entities EXCEPT ![tasks[i].sid] = [@ EXCEPT
                                  !.epg = None, !.epg_source = Str("error")]]
              /\ UNCHANGED <<data, attached, host_added, constructed>>]_vars

\* C7: a fetch of a has raised and left the source "error"; another fetch is in flight
\* and the entity of b is in the map
C7_Raised ==
    /\ last.op = "epg_raised"
    /\ SidA \in DOMAIN entities
    /\ entities[SidA].epg_source = Str("error")
    /\ entities[SidA].epg = None
    /\ Len(tasks) >= 1
    /\ SidB \in DOMAIN entities

\* C8: a step that takes an entity from live TV to other content leaves its channel
\* id, program id, channel number, program snapshot and source null.
C8_NonLiveClears ==
    [][\A sid \in DOMAIN entities :
          (/\ entities[sid].content_type = Str("tvchannel")
           /\ entities'[sid].content_type # Str("tvchannel"))
          => \A f \in LiveTvFieldNames : entities'[sid][f] = None]_vars

\* C8: a has gone from live TV to a movie while its EPG fetch is in flight, and its
\* live-TV fields are null
C8_SwitchedToMovie ==
    /\ last.op = "notify"
    /\ SidA \in DOMAIN entities
    /\ entities[SidA].content_type = Str("movie")
    /\ \E i \in 1..Len(tasks) : tasks[i].sid = SidA
    /\ \A f \in LiveTvFieldNames : entities[SidA][f] = None

\* C9: an entity whose content is not live TV has no channel id, no channel number, no
\* program snapshot and no source.
C9_NonLiveHasNoLiveTv ==
    \A sid \in DOMAIN entities :
        entities[sid].content_type # Str("tvchannel") =>
            /\ entities[sid].channel_id = None
            /\ entities[sid].channel_number = None
            /\ entities[sid].epg = None
            /\ entities[sid].epg_source = None

\* C10: after a notification, the snapshot fields of every entity of the list are the
\* ones the session that was applied last gives an entity that had no field set.
C10_SnapshotFromSessionAlone ==
    \A sid \in SessionIds :
        JustNotified(sid) =>
            \A f \in SnapshotFields :
                entities[sid][f] = NewEntity(AppliedLast(sid), now)[f]

\* C11: the state of an entity is the one of the snapshot applied to it last: paused
\* if IsPaused is true, also when IsPlaying is true; else playing if IsPlaying is true,
\* or PlaybackStatus is "Playing", or there is a now-playing item; else idle. A missing
\* IsPaused is not paused.
C11_StateDerivation ==
    SidA \in DOMAIN entities =>
        LET s == data[1]
            ps == IF "PlayState" \in DOMAIN s.v THEN s.v.PlayState ELSE EmptyDict
            paused == "IsPaused" \in DOMAIN ps.v /\ ps.v.IsPaused = Bool(TRUE)
            playing == \/ "IsPlaying" \in DOMAIN ps.v /\ ps.v.IsPlaying = Bool(TRUE)
                       \/ "PlaybackStatus" \in DOMAIN ps.v
                             /\ ps.v.PlaybackStatus = Str("Playing")
                       \/ "NowPlayingItem" \in DOMAIN s.v /\ s.v.NowPlayingItem # None
        IN  entities[SidA].state =
                IF paused THEN Str("paused")
                ELSE IF playing THEN Str("playing")
                ELSE Str("idle")

\* C11: a snapshot with IsPaused and IsPlaying both true and a now-playing item was
\* applied to the entity, and the entity is paused
C11_PausedWins ==
    /\ last.op = "apply"
    /\ SidA \in DOMAIN entities
    /\ Get(data[1], "NowPlayingItem") = MovieItem
    /\ Get(Get(data[1], "PlayState"), "IsPaused") = Bool(TRUE)
    /\ Get(Get(data[1], "PlayState"), "IsPlaying") = Bool(TRUE)
    /\ Get(Get(data[1], "PlayState"), "PlaybackStatus") = Str("Playing")
    /\ entities[SidA].state = Str("paused")

\* an entry of a poll result that is a session object with a usable id
UsableEntry(s) == IsDict(s) /\ Truthy(SessionIdOf(s))

\* C12: a notification whose list holds entries that name no session does not raise,
\* and it leaves the map, the entities, the registrations and the tasks as the
\* notification with the list without those entries would.
C12_MalformedSkipped ==
    [][(last'.op \in {"notify", "notify_raised", "setup_raised"} /\ now' = now) =>
          /\ last'.op = "notify"
          /\ \E st \in {UpdateListeners(
                           [entities |-> entities, seen |-> {}, new_entities |-> <<>>,
                            host_added |-> host_added, constructed |-> constructed,
                            tasks |-> tasks, raised |-> FALSE],
                           SelectSeq(data', UsableEntry), now, attached)} :
                /\ entities' = st.entities
                /\ host_added' = st.host_added
                /\ constructed' = st.constructed
                /\ tasks' = st.tasks]_vars

\* C13: no step takes a key out of the session-id -> entity map or binds a key to
\* another entity: every key stays, with the entity that was constructed for it, and
\* an entity whose session is not in the list of a notification is in the map,
\* unavailable.
C13_KeysKept ==
    [][\A sid \in DOMAIN entities :
          /\ sid \in DOMAIN entities'
          /\ constructed'[sid] = constructed[sid]
          /\ entities'[sid].session_id = sid
          /\ (last'.op = "notify" /\ now' = now /\ sid \notin IdsOf(data'))
                => ~entities'[sid].available]_vars

\* C13: a notification with an empty list has arrived while a and b were in the map
\* and a fetch of a was in flight; the fetch has raised, and both entities are in the
\* map, unavailable
C13_GoneButKept ==
    /\ last.op = "epg_raised"
    /\ data = <<>>
    /\ DOMAIN entities = SessionIds
    /\ \A sid \in SessionIds : ~entities[sid].available /\ constructed[sid] = 1

\* C14: the first notification, with the one session a playing the movie x (run time
\* 600000000 ticks, position 300000000 ticks, not paused, playing), creates and
\* registers one entity, with state playing, content type movie, 60 s duration and
\* 30 s position; a notification with the empty list that follows leaves this entity
\* in the map, unavailable, with every other field as it was.
C14_MovieThenEmpty ==
    [][(last'.op = "notify" /\ now' = now) =>
          /\ (last.op = "init" /\ data' = <<A_movie>>) =>
                /\ DOMAIN entities' = {SidA}
                /\ host_added' = [sid \in SessionIds |-> IF sid = SidA THEN 1 ELSE 0]
                /\ entities'[SidA].available
                /\ entities'[SidA].state = Str("playing")
                /\ entities'[SidA].content_type = Str("movie")
                /\ entities'[SidA].duration_s = Float(60, 0)
                /\ entities'[SidA].position_s = Float(30, 0)
          /\ (data = <<A_movie>> /\ DOMAIN entities = {SidA} /\ data' = <<>>) =>
                /\ entities' = [entities EXCEPT ![SidA] = [@ EXCEPT !.available = FALSE]]
                /\ host_added' = host_added]_vars

\* C14: the first poll had the session a with the movie and the next, ten seconds
\* later, was empty: the entity of a is the only one, unavailable, playing the movie
\* at 30 of 60 seconds
C14_MovieFrozen ==
    /\ last.op = "notify"
    /\ data = <<>>
    /\ now = TickSeconds
    /\ DOMAIN entities = {SidA}
    /\ SidA \in attached
    /\ ~entities[SidA].available
    /\ entities[SidA].state = Str("playing")
    /\ entities[SidA].content_id = Str("x")
    /\ entities[SidA].duration_s = Float(60, 0)
    /\ entities[SidA].position_s = Float(30, 0)
    /\ entities[SidA].position_updated_at = Time(0)

\* C15: while an entity is unavailable and its session id is in no poll result, no
\* step changes a snapshot field of it, its program snapshot or the source tag: an EPG
\* fetch that ends in that time writes nothing to the entity.
C15_FrozenWhileGone ==
    [][\A sid \in DOMAIN entities :
          (/\ ~entities[sid].available
           /\ ~entities'[sid].available
           /\ sid \notin IdsOf(data)
           /\ sid \notin IdsOf(data'))
          => \A f \in SnapshotFields \cup {"epg", "epg_source"} :
                entities'[sid][f] = entities[sid][f]]_vars

\* the step is one of an EPG fetch task
EpgStep == last'.op \in {"epg", "epg_raised"} /\ now' = now

\* the program snapshot or the source tag of the entity sid changes in the step
ProgramSnapshotChanges(sid) ==
    \/ entities'[sid].epg # entities[sid].epg
    \/ entities'[sid].epg_source # entities[sid].epg_source

\* C16 as stated: the program snapshot and the source tag of an entity are written by
\* the steps of its EPG fetch task only; an entity is constructed without them and
\* no other step changes them.
C16_OnlyEpgWrites ==
    [][/\ \A sid \in DOMAIN entities : ProgramSnapshotChanges(sid) => EpgStep
       /\ \A sid \in DOMAIN entities' \ DOMAIN entities :
             entities'[sid].epg = None /\ entities'[sid].epg_source = None]_vars

\* C16, amended: the program snapshot and the source tag of an entity are written by
\* the steps of its EPG fetch task, and they are cleared when a snapshot whose content
\* is not live TV is applied; an entity is constructed without them, and no other
\* step changes them: not a live-TV snapshot, not marking the entity gone.
C16_EpgWritesOrNonLiveClears ==
    [][/\ \A sid \in DOMAIN entities :
             ProgramSnapshotChanges(sid) =>
                \/ EpgStep
                \/ /\ last'.op = "notify"
                   /\ \E i \in Matches(data', sid) :
                         ValuesOf(data'[i]).playback.content_type # Str("tvchannel")
                   /\ entities'[sid].epg = None
                   /\ entities'[sid].epg_source = None
       /\ \A sid \in DOMAIN entities' \ DOMAIN entities :
             entities'[sid].epg = None /\ entities'[sid].epg_source = None]_vars

\* C16: the entity of a has the program snapshot of a fetch by program id, the
\* live-TV snapshot of another channel was applied to it after that, and it was marked
\* gone: the program snapshot is there
C16_SnapshotKept ==
    /\ last.op = "notify"
    /\ SidA \in DOMAIN entities
    /\ SidA \notin IdsOf(data)
    /\ ~entities[SidA].available
    /\ entities[SidA].epg = Program1
    /\ entities[SidA].epg_source = Str("program_id")
    /\ entities[SidA].name_prefix = Str("Phone")

\* C17: when an EPG fetch ends, the source tag is "error" if a call raised, "none" if
\* no program was returned, "program_id" if the program returned has the program id
\* the fetch was started with, and "channel_search" otherwise, whatever was applied to
\* the entity while the fetch was in flight.
C17_SourceOfRequest ==
    [][EpgStep =>
          \A i \in 1..Len(tasks) :
              tasks' = RemoveAt(tasks, i) =>
                  LET e == entities'[tasks[i].sid]
                      requested == tasks[i].program_id
                  IN  e.epg_source =
                          IF last'.op = "epg_raised" THEN Str("error")
                          ELSE IF e.epg = None THEN Str("none")
                          ELSE IF requested # None /\ Get(e.epg, "Id") = requested
                          THEN Str("program_id")
                          ELSE Str("channel_search")]_vars

\* C18: a notification ends no EPG fetch and stores no result: the fetches in flight
\* stay where they are, a fetch the notification launches is at its first call with
\* nothing fetched, and no entity gets a program snapshot or a source tag from it. A
\* program snapshot and a source tag appear in a step of the fetch task only.
C18_PassNeverWaits ==
    [][/\ (last'.op = "notify" /\ now' = now) =>
             /\ Len(tasks') >= Len(tasks)
             /\ SubSeq(tasks', 1, Len(tasks)) = tasks
             /\ \A i \in (Len(tasks) + 1)..Len(tasks') :
                   tasks'[i].pc = "program" /\ tasks'[i].epg = None
             /\ \A sid \in DOMAIN entities' :
                   /\ entities'[sid].epg # None =>
                         sid \in DOMAIN entities /\ entities'[sid].epg = entities[sid].epg
                   /\ entities'[sid].epg_source # None =>
                         /\ sid \in DOMAIN entities
                         /\ entities'[sid].epg_source = entities[sid].epg_source
       /\ \A sid \in DOMAIN entities :
             (/\ entities'[sid].epg_source # None
              /\ ProgramSnapshotChanges(sid)) => EpgStep]_vars

\* C18: a notification has launched a fetch while an earlier fetch of the same entity
\* awaits its second call; the entity has no program snapshot yet
C18_LaunchedBesideFetch ==
    /\ last.op = "notify"
    /\ Len(tasks) = 2
    /\ tasks[1].pc = "current"
    /\ tasks[2].pc = "program"
    /\ tasks[1].sid = SidA /\ tasks[2].sid = SidA
    /\ entities[SidA].epg = None
    /\ entities[SidA].epg_source = None
    /\ entities[SidA].last_epg_fetch = Time(now)

\* the client call the handler of a command is to make
FacadeCallOf(command) ==
    CASE command = "play" -> "unpause"
      [] command = "pause" -> "pause"
      [] command = "stop" -> "stop"
      [] command = "seek" -> "seek"

\* C19: every command handler has issued one client call, the one of its command,
\* for the session id of its entity; it has requested one refresh once the call has
\* returned and none before, and none when the call raised. A step of a handler
\* changes no entity, and an entity changes in a notification or in a step of an EPG
\* fetch only.
C19_CallThenRefresh ==
    [][/\ \A i \in 1..Len(commands') :
             /\ Len(commands'[i].calls) = 1
             /\ commands'[i].calls[1].call = FacadeCallOf(commands'[i].command)
             /\ commands'[i].calls[1].session_id = commands'[i].sid
             /\ commands'[i].refreshes =
                   IF commands'[i].pc \in {"refresh", "done"} THEN 1 ELSE 0
       /\ \A i \in 1..Len(commands) :
             /\ commands'[i].calls = commands[i].calls
             /\ commands'[i].refreshes # commands[i].refreshes =>
                   commands[i].pc = "call" /\ commands'[i].pc = "refresh"
       /\ commands' # commands =>
             UNCHANGED <<entities, data, tasks, attached, host_added, constructed>>
       /\ entities' # entities => (last'.op = "notify" /\ now' = now) \/ EpgStep]_vars

\* C19: the pause handler of a has posted the pause, requested its refresh and ended,
\* a seek of a has failed in its call and has requested none, and the entity is
\* still playing: no poll result was applied since
C19_PausedNotYetSeen ==
    /\ last.op = "command"
    /\ Len(commands) = 2
    /\ commands[1] = [sid |-> SidA, command |-> "pause", pc |-> "done",
                      calls |-> <<async_pause(SidA)>>, refreshes |-> 1]
    /\ commands[2].command = "seek"
    /\ commands[2].pc = "failed"
    /\ commands[2].refreshes = 0
    /\ entities[SidA].state = Str("playing")
    /\ entities[SidA].available

\* C20: applying a session snapshot, in the constructor or later, calls the EPG
\* trigger if and only if the content type it leaves is tvchannel and the channel id
\* or the program id it leaves is not null; otherwise it launches no fetch and leaves
\* the last-fetch time as it was.
C20_TriggerIffLiveWithId ==
    [][(last'.op \in {"apply", "construct"} /\ now' = now) =>
          LET e == entities'[SidA]
              live == /\ e.content_type = Str("tvchannel")
                      /\ e.channel_id # None \/ e.program_id # None
          IN  /\ last'.trigger = live
              /\ ~live =>
                    /\ tasks' = tasks
                    /\ launched' = launched
                    /\ e.last_epg_fetch =
                          IF SidA \in DOMAIN entities
                          THEN entities[SidA].last_epg_fetch ELSE None]_vars

\* C20: a live-TV snapshot with neither id was applied to an attached entity whose
\* latest fetch is 20 seconds old: the trigger was not called, no fetch was launched,
\* the last-fetch time is the old one
C20_LiveWithoutId ==
    /\ last.op = "apply"
    /\ ~last.trigger
    /\ data = <<A_tv0>>
    /\ SidA \in attached
    /\ entities[SidA].content_type = Str("tvchannel")
    /\ entities[SidA].channel_id = None
    /\ entities[SidA].program_id = None
    /\ entities[SidA].last_epg_fetch = Time(0)
    /\ now = EpgThrottleSeconds
    /\ Len(tasks) = 1

\* the entity e carries the channel id and the channel number of the program epg,
\* where the program has them
CarriesChannelOf(e, epg) ==
    /\ "ChannelId" \in DOMAIN epg.v => e.channel_id = epg.v.ChannelId
    /\ "ChannelNumber" \in DOMAIN epg.v => e.channel_number = epg.v.ChannelNumber

\* C21: a fetch starts with the program lookup; the calls of a fetch return in the
\* order program lookup, current-program lookup, channel-detail lookup; the
\* current-program lookup is issued only when the program lookup has returned nothing
\* and the entity has a channel id; when a lookup has returned a program, the entity
\* has the channel id and number the program carries; the channel-detail lookup is
\* issued only after that, for the entity's channel id, when the entity has no channel
\* number.
C21_CallsOrdered ==
    [][/\ (last'.op = "notify" /\ now' = now) =>
             \A i \in (Len(tasks) + 1)..Len(tasks') : tasks'[i].pc = "program"
       /\ EpgStep =>
             \A i \in 1..Len(tasks) :
                 LET sid == tasks[i].sid
                 IN  /\ (Len(tasks') = Len(tasks) /\ tasks'[i] # tasks[i]) =>
                           /\ last'.op = "epg"
                           /\ last'.call = tasks[i].pc
                           /\ tasks'[i].pc \in {"current", "channel"}
                           /\ tasks'[i].pc = "current" =>
                                 /\ tasks[i].pc = "program"
                                 /\ last'.result = None
                                 /\ entities[sid].channel_id # None
                                 /\ tasks'[i].channel_id = entities[sid].channel_id
                           /\ tasks'[i].pc = "channel" =>
                                 /\ tasks[i].pc \in {"program", "current"}
                                 /\ last'.result \in Programs
                                 /\ tasks'[i].epg = last'.result
                                 /\ CarriesChannelOf(entities'[sid], last'.result)
                                 /\ entities'[sid].channel_number = None
                                 /\ entities'[sid].channel_id # None
                                 /\ tasks'[i].channel_id = entities'[sid].channel_id
                     /\ (tasks' = RemoveAt(tasks, i) /\ last'.op = "epg") =>
                           /\ last'.call = tasks[i].pc
                           /\ last'.call \in {"program", "current"} =>
                                 /\ entities'[sid].epg = last'.result
                                 /\ last'.result # None =>
                                       CarriesChannelOf(entities'[sid], last'.result)]_vars

\* C21: the program lookup of a fetch for the channel c2 has returned nothing, the
\* current-program lookup has returned a program that carries no channel, and the
\* fetch awaits the channel-detail lookup for c2
C21_ThirdCall ==
    /\ last.op = "epg"
    /\ last.call = "current"
    /\ last.result = Program9
    /\ Len(tasks) = 1
    /\ tasks[1].pc = "channel"
    /\ tasks[1].channel_id = Str("c2")
    /\ entities[SidA].channel_number = None
    /\ entities[SidA].epg = None

\* C22: when the program lookups of a fetch are over without a raise and the entity
\* has a channel id and no channel number, the fetch goes on with the channel-detail
\* lookup, whether or not a program was found; and the number the channel-detail
\* lookup returns is the entity's channel number.
C22_ChannelLookupWhenUnknown ==
    [][(EpgStep /\ last'.op = "epg") =>
          \A i \in 1..Len(tasks) :
              LET sid == tasks[i].sid
              IN  /\ (/\ last'.call \in {"program", "current"}
                      /\ last'.call = tasks[i].pc
                      /\ tasks' = RemoveAt(tasks, i))
                     => ~(/\ entities'[sid].channel_number = None
                          /\ entities'[sid].channel_id # None)
                  /\ (/\ last'.call = "channel"
                      /\ tasks[i].pc = "channel"
                      /\ tasks' = RemoveAt(tasks, i)
                      /\ last'.result # None
                      /\ "Number" \in DOMAIN last'.result.v)
                     => entities'[sid].channel_number = last'.result.v.Number]_vars

\* a notification has called the EPG trigger of the attached entity of a within the
\* window of the last-fetch time s
DroppedAt(s) ==
    /\ JustNotified(SidA)
    /\ SidA \in attached
    /\ entities[SidA].last_epg_fetch = Time(s)
    /\ now < s + EpgThrottleSeconds

\* the last-fetch times whose window ends within the clock of the model
WindowStarts ==
    {s \in {k * TickSeconds : k \in 0..MaxTicks} :
        s + EpgThrottleSeconds <= MaxTicks * TickSeconds}

\* C23: while a stays on live TV with a known channel and the polls keep arriving, a
\* trigger dropped in the window of the last-fetch time s leads to a fetch launched
\* when the window is over; and a launched fetch leads to a source tag that is not
\* null.
C23_DroppedThenFetched ==
    /\ \A s \in WindowStarts :
          DroppedAt(s) ~>
              (launched[SidA] # None /\ launched[SidA].v >= s + EpgThrottleSeconds)
    /\ (launched[SidA] # None) ~>
          (/\ TasksOf(tasks, SidA) = 0
           /\ SidA \in DOMAIN entities
           /\ entities[SidA].epg_source # None)

\* C23: the entity of a was constructed at 0, which set its last-fetch time with no
\* fetch; the triggers in the window were dropped; the fetch launched at 20 has
\* completed and left a source tag
C23_FetchedAfterWindow ==
    /\ SidA \in DOMAIN entities
    /\ SidA \in attached
    /\ now = EpgThrottleSeconds
    /\ launched[SidA] = Time(EpgThrottleSeconds)
    /\ entities[SidA].last_epg_fetch = Time(EpgThrottleSeconds)
    /\ tasks = <<>>
    /\ entities[SidA].epg_source # None

\* C24: the two coordinators share no mutable state: while a refresh of one of them is
\* in flight, a step of a refresh of the other one changes nothing of the client, whose
\* cached user id both refreshes read.
C24_NoSharedState ==
    [][\A c \in Coordinators : \A d \in Coordinators \ {c} :
          (calls'[c] # calls[c] /\ calls[d].pc # "idle") => client' = client]_vars

\* a step in which the refresh of the sessions coordinator starts
SessionsPollStarts ==
    calls["sessions"].pc = "idle" /\ calls'["sessions"].pc # "idle"

\* C25: after a sessions refresh has failed with the authentication error no further
\* refresh of the sessions coordinator starts; after any other failure the data of the
\* coordinator are the ones it had.
C25_AuthFailureStopsPolling ==
    [][/\ coordinators["sessions"].last_exception = Str("EmbyAuthError")
            => ~SessionsPollStarts
       /\ (/\ calls'["sessions"] # calls["sessions"]
           /\ last'.finished
           /\ last'.result.raised
           /\ last'.result.error # "EmbyAuthError")
            => /\ coordinators'["sessions"].data = coordinators["sessions"].data
               /\ ~coordinators'["sessions"].last_update_success]_vars

\* a step in which the aggregate fetch of a caller ends
AggregateEnds(caller) ==
    calls'[caller] # calls[caller] /\ last'.finished

\* C26: an aggregate fetch returns whichever of its requests failed: the server
\* statistics with system_info, recent_activities and active_sessions, the library
\* statistics with counts and libraries unless no user id was resolved, the library
\* update with its three lists; the part of a failed request is empty.
C26_AggregateAlwaysReturns ==
    [][/\ AggregateEnds("server_stats") =>
              /\ ~last'.result.raised
              /\ DOMAIN last'.result.value.v =
                     {"system_info", "recent_activities", "active_sessions"}
              /\ (last'.request \in {"sessions", "sessions2"} /\ last'.response.raised)
                    => last'.result.value.v.active_sessions = List(<<>>)
       /\ AggregateEnds("library_stats") =>
              /\ ~last'.result.raised
              /\ \/ last'.result.value = EmptyDict
                 \/ DOMAIN last'.result.value.v = {"counts", "libraries"}
              /\ (last'.request = "views" /\ last'.response.raised)
                    => /\ last'.result.value.v.libraries = List(<<>>)
                       /\ last'.result.value.v.counts = calls["library_stats"].items
       /\ AggregateEnds("library") =>
              /\ ~last'.result.raised
              /\ DOMAIN last'.result.value.v =
                     {"upcoming_episodes", "latest_movies", "latest_episodes"}
              /\ (last'.request = "episodes" /\ last'.response.raised)
                    => /\ last'.result.value.v.latest_episodes = List(<<>>)
                       /\ last'.result.value.v.latest_movies =
                              calls["library"].out.latest_movies
                       /\ last'.result.value.v.upcoming_episodes =
                              calls["library"].out.upcoming_episodes]_vars

\* the list of an answer to a sessions query
SessionListOf(r) == IF IsList(r.value) THEN r.value.v ELSE <<>>

\* C27: in async_get_sessions of the sessions refresh the filtered query is issued only
\* when the first answer has at most one session and a user id is resolved; a first
\* answer of two or more sessions is returned as it is, with no further request;
\* without a user id the first answer is returned; the answer of the filtered query is
\* returned when it is longer than the first answer, else the first answer.
C27_FallbackQuery ==
    [][calls'["sessions"] # calls["sessions"] =>
          /\ calls'["sessions"].pc = "sessions2" =>
                 /\ Len(calls'["sessions"].sessions) <= 1
                 /\ Truthy(calls'["sessions"].uid)
                 /\ calls'["sessions"].uid = client'._user_id
          /\ (/\ last'.request = "sessions"
              /\ ~last'.response.raised
              /\ Len(SessionListOf(last'.response)) >= 2)
               => /\ last'.finished
                  /\ last'.result = Returned(last'.response.value)
          /\ (/\ last'.request = "sessions"
              /\ ~last'.response.raised
              /\ Len(SessionListOf(last'.response)) <= 1
              /\ Truthy(client._user_id))
               => calls'["sessions"].pc = "sessions2"
          /\ (last'.request = "users" /\ ~Truthy(client'._user_id))
               => /\ last'.finished
                  /\ last'.result = Returned(List(calls["sessions"].sessions))
          /\ (last'.request = "sessions2" /\ ~last'.response.raised)
               => /\ last'.finished
                  /\ last'.result =
                         Returned(List(
                             IF Len(SessionListOf(last'.response))
                                    > Len(calls["sessions"].sessions)
                             THEN SessionListOf(last'.response)
                             ELSE calls["sessions"].sessions))]_vars

\* C27: the first answer had one session and the filtered query, issued for the
\* resolved user, had two: the data of the coordinator are the filtered list
C27_FilteredLonger ==
    /\ last.op = "get"
    /\ last.caller = "sessions"
    /\ last.request = "sessions2"
    /\ last.response = Returned(List(SessionsOf("mine", 2)))
    /\ coordinators["sessions"].data = List(SessionsOf("mine", 2))
    /\ Truthy(client._user_id)

\* the snapshot that was applied last to the entity of a
SnapshotApplied ==
    /\ last.op \in {"apply", "construct"}
    /\ SidA \in DOMAIN entities
    /\ Len(data) = 1

\* a tick count that is a number for isinstance(ticks, (int, float)): a JSON number,
\* or a JSON boolean, which is the int 0 or 1
IsNumber(v) == v.t \in {"num", "bool"}
NumberOf(v) == IF v.t = "bool" THEN (IF v.v THEN 1 ELSE 0) ELSE v.v

\* the PositionTicks and the RunTimeTicks of a session
PositionTicksOf(s) == Get(Or(Get(s, "PlayState"), EmptyDict), "PositionTicks")
RunTimeTicksOf(s) == Get(Or(Get(s, "NowPlayingItem"), EmptyDict), "RunTimeTicks")

\* C28: after a snapshot is applied the position timestamp is None exactly when the
\* position is None; the step that applies a snapshot with a number of PositionTicks
\* sets the timestamp to the time of the step, and the step that applies a snapshot with
\* no PositionTicks or with PositionTicks that are no number sets it to None, whatever
\* it was.
C28_TimestampWithPosition ==
    [][(last'.op \in {"apply", "construct"} /\ now' = now) =>
          LET e == entities'[SidA]
              ticks == PositionTicksOf(data'[1])
          IN  /\ (e.position_updated_at # None) <=> (e.position_s # None)
              /\ IsNumber(ticks) => e.position_updated_at = Time(now)
              /\ ~IsNumber(ticks) => e.position_updated_at = None]_vars

\* C28: a snapshot with no position was applied at 10 to the entity of a, which was
\* constructed at 0: there is no timestamp
C28_NoTimestampCarried ==
    /\ SnapshotApplied
    /\ last.op = "apply"
    /\ now = TickSeconds
    /\ PositionTicksOf(data[1]) = None
    /\ entities[SidA].position_s = None
    /\ entities[SidA].position_updated_at = None

\* the id str() makes of a value that is not None
IdString(v) ==
    CASE v.t = "str" -> v
      [] v.t = "num" -> Str(ToString(v.v))

\* the id of the object at key k of d, None when there is no object or no id
IdOfObject(d, k) ==
    IF Get(d, k).t = "obj" /\ Get(Get(d, k), "Id") # None
    THEN IdString(Get(Get(d, k), "Id"))
    ELSE None

\* C29: after a live-TV snapshot is applied, channel_id is the ChannelId of the item
\* when it has one, else the id of the item, else None; program_id is the first that
\* there is of the ProgramId of the item, the id of the NowPlayingProgram of the
\* session, the id of the CurrentProgram of the item and the NowPlayingProgramId of the
\* session, else None. The ids the server sends are numbers or non-empty strings.
C29_LiveTvIds ==
    (SnapshotApplied /\ entities[SidA].content_type = Str("tvchannel")) =>
        LET s == data[1]
            np == Get(s, "NowPlayingItem")
            e == entities[SidA]
        IN  /\ e.channel_id =
                   IF Get(np, "ChannelId") # None THEN IdString(Get(np, "ChannelId"))
                   ELSE IF Get(np, "Id") # None THEN IdString(Get(np, "Id"))
                   ELSE None
            /\ e.program_id =
                   IF Get(np, "ProgramId") # None THEN IdString(Get(np, "ProgramId"))
                   ELSE IF IdOfObject(s, "NowPlayingProgram") # None
                   THEN IdOfObject(s, "NowPlayingProgram")
                   ELSE IF IdOfObject(np, "CurrentProgram") # None
                   THEN IdOfObject(np, "CurrentProgram")
                   ELSE IF Get(s, "NowPlayingProgramId") # None
                   THEN IdString(Get(s, "NowPlayingProgramId"))
                   ELSE None

\* C29: the item has neither ChannelId nor ProgramId and the session has no program
\* object: the channel is the item itself and the program is the third of the chain
C29_ThirdOfChain ==
    /\ SnapshotApplied
    /\ data[1] = LiveSession(Str("c1"), Missing, Missing, Missing, Obj([Id |-> Num(3)]),
                             Str("p4"))
    /\ entities[SidA].channel_id = Str("c1")
    /\ entities[SidA].program_id = Str("3")

\* C30: after a snapshot is applied, the duration and the position are the tick counts
\* divided by 10,000,000, whole seconds and the remaining ticks: 30 s for 300000000
\* and 0 s for 0; they are None when the tick count is missing, null or no number.
C30_TicksToSeconds ==
    (SnapshotApplied /\ data[1] \in TickSessions) =>
        \A f \in {"duration_s", "position_s"} :
            LET ticks == IF f = "duration_s" THEN RunTimeTicksOf(data[1])
                         ELSE PositionTicksOf(data[1])
                seconds == entities[SidA][f]
            IN  /\ IsNumber(ticks) =>
                      /\ seconds.t = "float"
                      /\ seconds.whole * TicksPerSecond + seconds.frac = NumberOf(ticks)
                      /\ seconds.frac \in 0..(TicksPerSecond - 1)
                /\ ticks = Num(300000000) => seconds = Float(30, 0)
                /\ ticks = Num(0) => seconds = Float(0, 0)
                /\ ~IsNumber(ticks) => seconds = None

\* C30: a movie of 300000000 ticks at 0 ticks was applied: 30 s and 0 s
C30_ThirtySeconds ==
    /\ SnapshotApplied
    /\ data[1] = TickSession(Num(300000000), Num(0))
    /\ entities[SidA].duration_s = Float(30, 0)
    /\ entities[SidA].position_s = Float(0, 0)

\* C31: after a snapshot is applied, the content type is tvshow for an episode, movie
\* for a movie, music for audio, audiofile, music and musicvideo, tvchannel for
\* livetvchannel, tvchannel and program, however the type is spelled; another type
\* that is not empty is the content type in lower case; there is no content type for
\* a type that is empty, null or missing.
C31_ContentTypeMapping ==
    (SnapshotApplied /\ data[1] \in TypeSessions) =>
        LET type == Get(Get(data[1], "NowPlayingItem"), "Type")
            content_type == entities[SidA].content_type
        IN  IF type = None \/ type = Str("")
            THEN content_type = None
            ELSE /\ type.v \in {"Episode", "episode", "EPISODE"} <=>
                        content_type = Str("tvshow")
                 /\ type.v \in {"Movie", "MOVIE"} <=> content_type = Str("movie")
                 /\ type.v \in {"Audio", "AudioFile", "Music", "MusicVideo"} <=>
                        content_type = Str("music")
                 /\ type.v \in {"LiveTvChannel", "TvChannel", "Program"} <=>
                        content_type = Str("tvchannel")
                 /\ type.v \in {"Trailer", "trailer"} <=> content_type = Str("trailer")
                 /\ type.v = "Photo" <=> content_type = Str("photo")

\* C31: an item of type MusicVideo was applied: the content type is music
C31_MusicVideo ==
    /\ SnapshotApplied
    /\ data[1] = TypeSession(Str("MusicVideo"))
    /\ entities[SidA].content_type = Str("music")

\* a value that holds nothing: None, the empty string, the empty dict, the empty list
Empty(v) == v = None \/ v = Str("") \/ v = EmptyDict \/ v = List(<<>>)

\* C32: the attributes of an entity hold no field with an empty value, whatever the
\* snapshot and the program snapshot of the entity are, and the entity reports a state
C32_EmptyFieldsOmitted ==
    \A sid \in DOMAIN entities :
        LET attrs == extra_state_attributes(entities[sid], data)
        IN  /\ \A k \in DOMAIN attrs : ~Empty(attrs[k])
            /\ entities[sid].state # None

\* C33: at the end of every reconciliation pass, one that raised part-way through the
\* list included, every entity of the map has been handed to async_add_entities
C33_MapImpliesRegistered ==
    \A sid \in DOMAIN entities : host_added[sid] > 0

\* the EPG fetch task i ends in this step: its result is stored in its entity
TaskEnds(i) ==
    /\ EpgStep
    /\ i \in 1..Len(tasks)
    /\ tasks' = RemoveAt(tasks, i)

\* a fetch of the entity of task i that was launched after task i has ended already:
\* the latest launch of the entity is not that of task i and is no longer in flight
LaterFetchStored(i) ==
    /\ launched[tasks[i].sid] # tasks[i].at
    /\ \A j \in 1..Len(tasks) :
           tasks[j].sid = tasks[i].sid => tasks[j].at # launched[tasks[i].sid]

\* C34: a fetch task never stores its result after a fetch task of the same entity
\* that was launched later has stored its result
C34_StoredInLaunchOrder ==
    [][\A i \in 1..Len(tasks) : TaskEnds(i) => ~LaterFetchStored(i)]_vars

\* the last-fetch time of the entity of sid in the map ents, None while it has no entity
LastFetchOf(ents, sid) == IF sid \in DOMAIN ents THEN ents[sid].last_epg_fetch ELSE None

\* C35: a step that advances the last-fetch time of an entity, the construction of the
\* entity included, launches an EPG fetch task for the entity at that time
C35_StampImpliesFetch ==
    [][\A sid \in SessionIds :
          LastFetchOf(entities', sid) # LastFetchOf(entities, sid)
          => /\ launched'[sid] = LastFetchOf(entities', sid)
             /\ TasksOf(tasks', sid) = TasksOf(tasks, sid) + 1]_vars

\* the channel id of the live-TV session s, as _apply_session derives it
ChannelOfSession(s) == NewEntity(s, 0).channel_id

\* the poll of this step changes the channel of the session sid, which is named once
\* in the list before and once in the list after and is on live TV in both
ChannelChanges(sid) ==
    /\ last'.op = "notify" /\ now' = now
    /\ sid \in DOMAIN entities
    /\ Cardinality(Matches(data, sid)) = 1
    /\ Cardinality(Matches(data', sid)) = 1
    /\ entities[sid].content_type = Str("tvchannel")
    /\ entities'[sid].content_type = Str("tvchannel")
    /\ ChannelOfSession(data[LastMatch(data, sid)])
           # ChannelOfSession(data'[LastMatch(data', sid)])

\* C36: when a poll changes the channel of a session that stays on live TV, the entity
\* no longer carries the program snapshot and the source tag fetched for the previous
\* channel
C36_SnapshotOfCurrentChannel ==
    [][\A sid \in SessionIds :
          (ChannelChanges(sid) /\ entities[sid].epg # None)
          => entities'[sid].epg = None /\ entities'[sid].epg_source = None]_vars

\* the state the listeners of a notification start from
BeforeListeners ==
    [entities |-> entities, seen |-> {}, new_entities |-> <<>>,
     host_added |-> host_added, constructed |-> constructed,
     tasks |-> tasks, raised |-> FALSE]

\* C37: for every session list and every entity the host has added, the entity's
\* fields, availability included, are the same after the reconciliation pass as after
\* the entity's own _handle_coordinator_update applied to the same list
C37_UpdatePathsAgree ==
    \A sessions \in SessionLists, sid \in attached :
        _sync_entities(BeforeListeners, sessions, now, attached).entities[sid]
            = _handle_coordinator_update(BeforeListeners, sid, sessions, now).entities[sid]

\* the call of caller issues an identity request in this step: /Users/Me or /Users
IssuesIdentityRequest(caller) ==
    /\ calls'[caller].pc \in {"users_me", "users"}
    /\ calls'[caller].pc # calls[caller].pc

\* C38: once the client has cached a user id, no step changes the cached id and no call
\* issues an identity request, however the calls that resolve the id interleave
C38_UserIdResolvedOnce ==
    [][Truthy(client._user_id)
          => /\ client'._user_id = client._user_id
             /\ \A caller \in Callers : ~IssuesIdentityRequest(caller)]_vars

\* the setups whose _sync_entities is subscribed to a sessions coordinator
SubscribedPasses(e) == {g \in Setups : "_sync_entities" \in e.listeners[g]}

\* C39: a notification invokes _sync_entities only for the setup that is loaded, never
\* for one that was unloaded, and after a reload whose unload has succeeded exactly one
\* _sync_entities is subscribed
C39_UnloadUnsubscribes ==
    [][/\ \A g \in Setups :
              entry'.notified[g] > entry.notified[g] => (entry.loaded /\ g = entry.setups)
       /\ (last'.op = "reload" /\ last'.ok /\ last' # last)
              => Cardinality(SubscribedPasses(entry')) = 1]_vars

====
